---- MODULE Spec2Model ----
(***************************************************************************)
(* Connection supervision and tool routing of the MCP client               *)
(* (services/mcp_client.py) over the descriptor store                      *)
(* (config/mcp_config.py).                                                 *)
(*                                                                         *)
(* The client runs on one asyncio event loop: the code between two awaits  *)
(* is one atomic step, and a coroutine suspended in an await resumes when  *)
(* the subprocess, the session or the timer it waits for answers.  Each    *)
(* action below is one such step.  What a subprocess or a session answers  *)
(* (spawned or not, handshake accepted or not, the tool listing, a tool    *)
(* call's outcome) is chosen by the environment.                           *)
(***************************************************************************)
EXTENDS Integers, Sequences, FiniteSets, TLC

\* ------------------------------------------------------------------ bounds
\* The server names of the store, in the order the store holds them.
StoreOrder == <<"A", "B", "C">>
Names == {StoreOrder[i] : i \in DOMAIN StoreOrder}
\* The tool names a server may list; a caller may ask for any of them.
Tools == {"x", "y"}
\* The largest retry_attempts of a descriptor.
MaxRetry == 3
\* The coroutines of the application layer that may call into the client.
Callers == {"app", "admin"}
\* preferred_server=None
NoPref == "none"
\* The most MCPServerConnection objects created in one run of the client;
\* an operation that would create more is not started.
MaxObjects == 2
\* The same for a client that is reloaded or cleaned up.
MaxRebuilt == 5

VARIABLES
    servers,      \* MCPConfigManager.servers: the descriptors, in insertion order
    heap,         \* the MCPServerConnection objects ever created, by object id
    connections,  \* EnhancedMCPClient.connections: <<name, object id>>, in insertion order
    initialized,  \* EnhancedMCPClient._initialized
    runs,         \* the _connect_with_retry coroutines in flight or finished
    call          \* per caller: the client operation it is in and where

vars == <<servers, heap, connections, initialized, runs, call>>

\* ------------------------------------------------------- the descriptor store
\* args is the dataclass default (no argument) unless the backing definition
\* gives another list.
MCPServerConfig(name, enabled, retry_attempts) ==
    [name |-> name, enabled |-> enabled, retry_attempts |-> retry_attempts, args |-> <<>>]

\* retry_attempts is 1 for the first descriptor, MaxRetry for the second and
\* MaxRetry - 1 for the third.
RetryAttemptsOf(i) == IF i = 1 THEN 1 ELSE IF i = 2 THEN MaxRetry ELSE MaxRetry - 1

\* Variant: get_enabled_servers without its filter on enabled.
SelectAll(s) == s

RECURSIVE SelectEnabled(_)
SelectEnabled(s) ==
    IF s = <<>> THEN <<>>
    ELSE IF Head(s).enabled THEN <<Head(s)>> \o SelectEnabled(Tail(s))
    ELSE SelectEnabled(Tail(s))

get_enabled_servers == SelectEnabled(servers)

list_servers == {servers[i].name : i \in DOMAIN servers}

EnabledNames == {servers[i].name : i \in {j \in DOMAIN servers : servers[j].enabled}}

\* ------------------------------------------------------------ the dict
Keys(m) == {m[i].name : i \in DOMAIN m}

Lookup(m, n) == m[CHOOSE i \in DOMAIN m : m[i].name = n].obj

\* m[n] = o of an insertion-ordered dict: a present key keeps its place.
DictSet(m, n, o) ==
    IF n \in Keys(m)
    THEN [i \in DOMAIN m |-> IF m[i].name = n THEN [name |-> n, obj |-> o] ELSE m[i]]
    ELSE Append(m, [name |-> n, obj |-> o])

\* Variant: a deletion that empties the dict.
DictClear(m, n) == <<>>

\* del m[n]
DictDel(m, n) == SelectSeq(m, LAMBDA e : e.name # n)

\* ------------------------------------------------------ MCPServerConnection
MCPServerConnection(config) ==
    [config |-> config,
     session |-> FALSE,
     is_connected |-> FALSE,
     available_tools |-> {},
     locked |-> FALSE]

\* ------------------------------------------------------ _connect_with_retry
\* launches counts the subprocess launches the coroutine's connect() calls
\* have made, sleeps its calls of asyncio.sleep; listed tells how the tool
\* listing of its connect() ended ("ok", "failed"), if it got there.
NewRun(c, o) ==
    [owner |-> c, obj |-> o, attempt |-> 0, pc |-> "ready", result |-> "none", log |-> <<>>,
     launches |-> 0, sleeps |-> 0, listed |-> "none"]

\* What the retry loop does once connect() has returned ("true", "false") or
\* raised ("raise"): return True on success; otherwise, in the loop body or in
\* its except clause, sleep retry_delay unless this was the last attempt, and
\* return False when the loop is exhausted.  log is the history of the
\* outcomes of the connect() calls this coroutine has made.
\* Variant: the retry loop without its except clause, so that what connect()
\* raises leaves the coroutine.
RetryAfterNoExcept(r, retry_attempts, outcome) ==
    LET r1 == [r EXCEPT !.log = Append(@, outcome)] IN
    CASE outcome = "true" ->
            [r1 EXCEPT !.pc = "done", !.result = "true"]
      [] outcome = "false" ->
            IF r.attempt < retry_attempts - 1
            THEN [r1 EXCEPT !.pc = "sleep", !.sleeps = @ + 1]
            ELSE [r1 EXCEPT !.pc = "done", !.result = "false"]
      [] outcome = "raise" ->
            [r1 EXCEPT !.pc = "done", !.result = "raised"]

\* Variant: the except clause of the retry loop without its sleep.
RetryAfterNoSleepOnRaise(r, retry_attempts, outcome) ==
    LET r1 == [r EXCEPT !.log = Append(@, outcome)] IN
    CASE outcome = "true" ->
            [r1 EXCEPT !.pc = "done", !.result = "true"]
      [] outcome = "false" ->
            IF r.attempt < retry_attempts - 1
            THEN [r1 EXCEPT !.pc = "sleep", !.sleeps = @ + 1]
            ELSE [r1 EXCEPT !.pc = "done", !.result = "false"]
      [] outcome = "raise" ->
            IF r.attempt < retry_attempts - 1
            THEN [r1 EXCEPT !.pc = "ready", !.attempt = @ + 1]
            ELSE [r1 EXCEPT !.pc = "done", !.result = "false"]

RetryAfter(r, retry_attempts, outcome) ==
    LET r1 == [r EXCEPT !.log = Append(@, outcome)] IN
    CASE outcome = "true" ->
            [r1 EXCEPT !.pc = "done", !.result = "true"]
      [] outcome = "false" ->
            IF r.attempt < retry_attempts - 1
            THEN [r1 EXCEPT !.pc = "sleep", !.sleeps = @ + 1]
            ELSE [r1 EXCEPT !.pc = "done", !.result = "false"]
      [] outcome = "raise" ->
            IF r.attempt < retry_attempts - 1
            THEN [r1 EXCEPT !.pc = "sleep", !.sleeps = @ + 1]
            ELSE [r1 EXCEPT !.pc = "done", !.result = "false"]

RetryOf(r) == heap[r.obj].config.retry_attempts

\* Variant: the connections are connected one after the other, each retry
\* loop starting only when those before it have returned.
ConnectBeginInTurn(i) ==
    LET r == runs[i] o == r.obj IN
    /\ r.pc = "ready"
    /\ ~heap[o].locked
    /\ \A j \in DOMAIN runs : j < i => runs[j].pc = "done"
    /\ IF heap[o].is_connected
       THEN /\ runs' = [runs EXCEPT ![i] = RetryAfter(r, RetryOf(r), "true")]
            /\ heap' = heap
       ELSE /\ runs' = [runs EXCEPT ![i].pc = "spawn", ![i].launches = @ + 1]
            /\ heap' = [heap EXCEPT ![o].locked = TRUE]
    /\ UNCHANGED <<servers, connections, initialized, call>>

\* Variant: connect() without its lock.
ConnectBeginNoLock(i) ==
    LET r == runs[i] o == r.obj IN
    /\ r.pc = "ready"
    /\ IF heap[o].is_connected
       THEN /\ runs' = [runs EXCEPT ![i] = RetryAfter(r, RetryOf(r), "true")]
            /\ heap' = heap
       ELSE /\ runs' = [runs EXCEPT ![i].pc = "spawn", ![i].launches = @ + 1]
            /\ heap' = [heap EXCEPT ![o].locked = TRUE]
    /\ UNCHANGED <<servers, connections, initialized, call>>

\* connect() is entered: the lock is taken; an already connected connection
\* returns True at once, otherwise the subprocess launch is awaited.
ConnectBegin(i) ==
    LET r == runs[i] o == r.obj IN
    /\ r.pc = "ready"
    /\ ~heap[o].locked
    /\ IF heap[o].is_connected
       THEN /\ runs' = [runs EXCEPT ![i] = RetryAfter(r, RetryOf(r), "true")]
            /\ heap' = heap
       ELSE /\ runs' = [runs EXCEPT ![i].pc = "spawn", ![i].launches = @ + 1]
            /\ heap' = [heap EXCEPT ![o].locked = TRUE]
    /\ UNCHANGED <<servers, connections, initialized, call>>

\* stdio_client under wait_for answers: the transport, a timeout or an error.
SpawnOk(i) ==
    LET r == runs[i] o == r.obj IN
    /\ r.pc = "spawn"
    /\ heap' = [heap EXCEPT ![o].session = TRUE]
    /\ runs' = [runs EXCEPT ![i].pc = "handshake"]
    /\ UNCHANGED <<servers, connections, initialized, call>>

SpawnFail(i) ==
    LET r == runs[i] o == r.obj IN
    /\ r.pc = "spawn"
    /\ heap' = [heap EXCEPT ![o].locked = FALSE]
    /\ runs' = [runs EXCEPT ![i] = RetryAfter(r, RetryOf(r), "false")]
    /\ UNCHANGED <<servers, connections, initialized, call>>

\* session.initialize() answers.
HandshakeOk(i) ==
    LET r == runs[i] IN
    /\ r.pc = "handshake"
    /\ runs' = [runs EXCEPT ![i].pc = "listing"]
    /\ UNCHANGED <<servers, heap, connections, initialized, call>>

\* Variant: connect() launching the subprocess again itself when the
\* handshake fails.
HandshakeFailRelaunch(i) ==
    LET r == runs[i] IN
    /\ r.pc = "handshake"
    /\ runs' = [runs EXCEPT ![i].pc = "spawn", ![i].launches = @ + 1]
    /\ UNCHANGED <<servers, heap, connections, initialized, call>>

HandshakeFail(i) ==
    LET r == runs[i] o == r.obj IN
    /\ r.pc = "handshake"
    /\ heap' = [heap EXCEPT ![o].locked = FALSE]
    /\ runs' = [runs EXCEPT ![i] = RetryAfter(r, RetryOf(r), "false")]
    /\ UNCHANGED <<servers, connections, initialized, call>>

\* Variant: a failed listing that keeps what the answer carried.
ListedToolsStale(answer) == answer.tools

\* _update_available_tools: the listing, or the empty set when it fails.
ListedTools(answer) == IF answer.ok THEN answer.tools ELSE {}

ListingAnswers == [ok : BOOLEAN, tools : SUBSET Tools]

\* session.list_tools() answers; connect() then sets is_connected and returns True.
ListingDone(i) ==
    LET r == runs[i] o == r.obj IN
    /\ r.pc = "listing"
    /\ \E answer \in ListingAnswers :
         /\ heap' = [heap EXCEPT ![o].available_tools = ListedTools(answer),
                                 ![o].is_connected = TRUE,
                                 ![o].locked = FALSE]
         /\ runs' = [runs EXCEPT ![i] =
                      RetryAfter([r EXCEPT !.listed = IF answer.ok THEN "ok" ELSE "failed"],
                                 RetryOf(r), "true")]
    /\ UNCHANGED <<servers, connections, initialized, call>>

\* The awaited connect() raises instead of returning.  connect() as written
\* catches every Exception itself, so this step belongs only to the
\* specification that checks the retry loop against a connect() that raises.
ConnectRaises(i) ==
    LET r == runs[i] IN
    /\ r.pc = "ready"
    /\ runs' = [runs EXCEPT ![i] = RetryAfter(r, RetryOf(r), "raise")]
    /\ UNCHANGED <<servers, heap, connections, initialized, call>>

\* asyncio.sleep(retry_delay) is over: the next attempt of the loop.
SleepDone(i) ==
    LET r == runs[i] IN
    /\ r.pc = "sleep"
    /\ runs' = [runs EXCEPT ![i].pc = "ready", ![i].attempt = r.attempt + 1]
    /\ UNCHANGED <<servers, heap, connections, initialized, call>>

\* --------------------------------------------------------- EnhancedMCPClient
NoRet == [kind |-> "none", server |-> "", avail |-> {}, status |-> <<>>]

\* before is the store and the map as the operation found them, objects the
\* number of connection objects then; closed is the outcome of the
\* session.close() the operation awaited, reread that of the store's re-read,
\* found the tools of the connection as disconnect() found them, waited
\* whether disconnect() had to wait for the connection's lock.
IdleCall ==
    [op |-> "none", pc |-> "idle", tool |-> "", pref |-> NoPref,
     name |-> "", idx |-> 0, size |-> 0, obj |-> 0, invoked |-> <<>>,
     ranInit |-> FALSE, ret |-> NoRet,
     before |-> [servers |-> <<>>, connections |-> <<>>], closed |-> "none",
     objects |-> 0, reread |-> "none", found |-> {}, waited |-> FALSE]

\* Variant: get_available_tools without its test of is_connected.
get_available_tools_unfiltered(h, m) ==
    {[name |-> m[i].name, tools |-> h[m[i].obj].available_tools] : i \in DOMAIN m}

\* get_available_tools, after initialize(): one entry per connected connection.
get_available_tools(h, m) ==
    {[name |-> m[i].name, tools |-> h[m[i].obj].available_tools] :
        i \in {j \in DOMAIN m : h[m[j].obj].is_connected}}

\* Variant: get_server_status reporting every connection of the map as connected.
get_server_status_managed(h, m, s) ==
    [n \in Keys(m) \cup {s[i].name : i \in DOMAIN s} |->
        IF n \in Keys(m)
        THEN [connected |-> TRUE,
              tools_count |-> Cardinality(h[Lookup(m, n)].available_tools),
              tools |-> h[Lookup(m, n)].available_tools]
        ELSE [connected |-> FALSE, tools_count |-> 0, tools |-> {}]]

\* Variant: get_server_status without its loop over the store's names.
get_server_status_live(h, m, s) ==
    [n \in Keys(m) |->
        [connected |-> h[Lookup(m, n)].is_connected,
         tools_count |-> Cardinality(h[Lookup(m, n)].available_tools),
         tools |-> h[Lookup(m, n)].available_tools]]

\* get_server_status: the live connections, then the descriptors of the store
\* that no connection of the map stands for.
get_server_status(h, m, s) ==
    [n \in Keys(m) \cup {s[i].name : i \in DOMAIN s} |->
        IF n \in Keys(m)
        THEN [connected |-> h[Lookup(m, n)].is_connected,
              tools_count |-> Cardinality(h[Lookup(m, n)].available_tools),
              tools |-> h[Lookup(m, n)].available_tools]
        ELSE [connected |-> FALSE, tools_count |-> 0, tools |-> {}]]

\* Variant: MCPServerConnection.call_tool testing the tool before the
\* connection.
ConnCallToolListedFirst(cn, tool) ==
    IF tool \notin cn.available_tools THEN "ValueError"
    ELSE IF ~cn.is_connected \/ ~cn.session THEN "RuntimeError"
    ELSE "forward"

\* MCPServerConnection.call_tool up to its await: what it raises, or "forward"
\* when the call goes to the session.
ConnCallTool(cn, tool) ==
    IF ~cn.is_connected \/ ~cn.session THEN "RuntimeError"
    ELSE IF tool \notin cn.available_tools THEN "ValueError"
    ELSE "forward"

RECURSIVE Scan(_, _, _, _)
\* The loop `for name, connection in self.connections.items()` from position i
\* on, up to the next await or the end of the call.  The dict iterator raises
\* RuntimeError when the dict's size is no longer the size it was created with.
Scan(cr, i, h, m) ==
    IF Len(m) # cr.size
    THEN [cr EXCEPT !.pc = "done", !.ret = [NoRet EXCEPT !.kind = "RuntimeError"]]
    ELSE IF i > Len(m)
    THEN [cr EXCEPT !.pc = "done", !.ret = [NoRet EXCEPT !.kind = "ToolNotFound"]]
    ELSE LET cn == h[m[i].obj] IN
         IF cn.is_connected /\ cr.tool \in cn.available_tools
         THEN IF ConnCallTool(cn, cr.tool) = "forward"
              THEN [cr EXCEPT !.pc = "scan_invoke", !.idx = i, !.obj = m[i].obj]
              ELSE Scan([cr EXCEPT !.invoked = Append(@, [name |-> m[i].name, ok |-> FALSE])],
                        i + 1, h, m)
         ELSE Scan(cr, i + 1, h, m)

\* Variant: a scan that passes over the first connection of the map.
StartScanSecond(cr, h, m) == Scan([cr EXCEPT !.size = Len(m)], 2, h, m)

\* The general scan starts: a new iterator over the dict.
StartScan(cr, h, m) == Scan([cr EXCEPT !.size = Len(m)], 1, h, m)

\* call_tool after initialize(): the preferred server, when it is given, in
\* the map, connected and exposing the tool; otherwise the general scan.
CallToolBody(cr, h, m) ==
    IF /\ cr.pref # NoPref
       /\ cr.pref \in Keys(m)
       /\ h[Lookup(m, cr.pref)].is_connected
       /\ cr.tool \in h[Lookup(m, cr.pref)].available_tools
    THEN IF ConnCallTool(h[Lookup(m, cr.pref)], cr.tool) = "forward"
         THEN [cr EXCEPT !.pc = "pref_invoke", !.obj = Lookup(m, cr.pref)]
         ELSE StartScan([cr EXCEPT !.invoked = Append(@, [name |-> cr.pref, ok |-> FALSE])], h, m)
    ELSE StartScan(cr, h, m)

\* What the caller's operation does once its `await self.initialize()` is over.
AfterInitialize(cr, h, m) ==
    CASE cr.op = "initialize" ->
            [cr EXCEPT !.pc = "done", !.ret = [NoRet EXCEPT !.kind = "ok"]]
      [] cr.op = "get_available_tools" ->
            [cr EXCEPT !.pc = "done",
                       !.ret = [NoRet EXCEPT !.kind = "ok", !.avail = get_available_tools(h, m)]]
      [] cr.op = "call_tool" -> CallToolBody(cr, h, m)
      [] cr.op = "reload_config" ->
            [cr EXCEPT !.pc = "done", !.ret = [NoRet EXCEPT !.kind = "ok"]]

RECURSIVE CreateConnections(_, _, _)
\* `self.connections[server_config.name] = connection` for each enabled
\* descriptor; the new objects take the ids base+1, base+2, ...
CreateConnections(m, en, base) ==
    IF en = <<>> THEN m
    ELSE CreateConnections(DictSet(m, Head(en).name, base + 1), Tail(en), base + 1)

NewConnections(en) == [i \in DOMAIN en |-> MCPServerConnection(en[i])]

\* The body of initialize() past the flag, on the store s, the map m0, the
\* objects h0 and the tasks rs, the flag being flag.
FanOut(c, cr, s, m0, h0, rs, flag) ==
    LET en == SelectEnabled(s)
        h == h0 \o NewConnections(en)
        m == CreateConnections(m0, en, Len(h0))
        tasks == [i \in DOMAIN m |-> NewRun(c, m[i].obj)]
        cr1 == [cr EXCEPT !.ranInit = TRUE]
    IN /\ heap' = h
       /\ connections' = m
       /\ runs' = rs \o tasks
       /\ IF tasks = <<>>
          THEN /\ initialized' = TRUE
               /\ call' = [call EXCEPT ![c] = AfterInitialize(cr1, h, m)]
          ELSE /\ initialized' = flag
               /\ call' = [call EXCEPT ![c] = [cr1 EXCEPT !.pc = "init_wait"]]

\* initialize() when the flag is set: it returns at once.
InitializeNoop(c, cr) ==
    /\ call' = [call EXCEPT ![c] = AfterInitialize(cr, heap, connections)]
    /\ UNCHANGED <<servers, heap, connections, initialized, runs>>

\* initialize() past the flag, up to its first await: one new connection per
\* enabled descriptor, then one retry task per connection of the map.  With
\* no task to await it sets the flag and returns in the same step.
InitializeFanOut(c, cr) ==
    /\ FanOut(c, cr, servers, connections, heap, runs, initialized)
    /\ UNCHANGED servers

\* Variant: initialize() without its test of the flag.
initialize_unguarded(c, cr) == InitializeFanOut(c, cr)

initialize(c, cr) ==
    IF initialized THEN InitializeNoop(c, cr) ELSE InitializeFanOut(c, cr)

RunsOf(c) == {i \in DOMAIN runs : runs[i].owner = c}

\* Variant: initialize() goes on as soon as one of its tasks is done.
InitializeJoinFirst(c) ==
    /\ call[c].pc = "init_wait"
    /\ \E i \in RunsOf(c) : runs[i].pc = "done"
    /\ initialized' = TRUE
    /\ call' = [call EXCEPT ![c] = AfterInitialize(call[c], heap, connections)]
    /\ UNCHANGED <<servers, heap, connections, runs>>

\* Every task of the fan-out has been awaited: the flag is set and the
\* caller's operation goes on.
InitializeJoin(c) ==
    /\ call[c].pc = "init_wait"
    /\ \A i \in RunsOf(c) : runs[i].pc = "done"
    /\ initialized' = TRUE
    /\ call' = [call EXCEPT ![c] = AfterInitialize(call[c], heap, connections)]
    /\ UNCHANGED <<servers, heap, connections, runs>>

Initialize(c) ==
    /\ call[c].pc = "idle"
    /\ initialize(c, [IdleCall EXCEPT !.op = "initialize"])

GetAvailableTools(c) ==
    /\ call[c].pc = "idle"
    /\ initialize(c, [IdleCall EXCEPT !.op = "get_available_tools"])

CallTool(c) ==
    /\ call[c].pc = "idle"
    /\ \E tool \in Tools, pref \in Names \cup {NoPref} :
         initialize(c, [IdleCall EXCEPT !.op = "call_tool", !.tool = tool, !.pref = pref])

\* session.call_tool answers with a result: call_tool returns it.
InvokeOk(c) ==
    LET cr == call[c] IN
    /\ cr.pc \in {"pref_invoke", "scan_invoke"}
    /\ call' = [call EXCEPT ![c] =
                 [cr EXCEPT !.pc = "done",
                            !.invoked = Append(@, [name |-> heap[cr.obj].config.name, ok |-> TRUE]),
                            !.ret = [NoRet EXCEPT !.kind = "ok", !.server = heap[cr.obj].config.name]]]
    /\ UNCHANGED <<servers, heap, connections, initialized, runs>>

\* Variant: a failed session.call_tool takes the connection down.
InvokeFailDisconnects(c) ==
    LET cr == call[c]
        cr1 == [cr EXCEPT !.invoked = Append(@, [name |-> heap[cr.obj].config.name, ok |-> FALSE])]
    IN
    /\ cr.pc \in {"pref_invoke", "scan_invoke"}
    /\ heap' = [heap EXCEPT ![cr.obj] =
                 [@ EXCEPT !.session = FALSE, !.is_connected = FALSE, !.available_tools = {}]]
    /\ call' = [call EXCEPT ![c] =
                 IF cr.pc = "pref_invoke"
                 THEN StartScan(cr1, heap', connections)
                 ELSE Scan(cr1, cr.idx + 1, heap', connections)]
    /\ UNCHANGED <<servers, connections, initialized, runs>>

\* Variant: the preferred server's failure leaves call_tool instead of
\* falling through to the scan.
InvokeFailPropagates(c) ==
    LET cr == call[c]
        cr1 == [cr EXCEPT !.invoked = Append(@, [name |-> heap[cr.obj].config.name, ok |-> FALSE])]
    IN
    /\ cr.pc \in {"pref_invoke", "scan_invoke"}
    /\ call' = [call EXCEPT ![c] =
                 IF cr.pc = "pref_invoke"
                 THEN [cr1 EXCEPT !.pc = "done", !.ret = [NoRet EXCEPT !.kind = "InvocationError"]]
                 ELSE Scan(cr1, cr.idx + 1, heap, connections)]
    /\ UNCHANGED <<servers, heap, connections, initialized, runs>>

\* session.call_tool raises: the preferred server's failure falls through to
\* the general scan, a scanned server's failure to the next server.
InvokeFail(c) ==
    LET cr == call[c]
        cr1 == [cr EXCEPT !.invoked = Append(@, [name |-> heap[cr.obj].config.name, ok |-> FALSE])]
    IN
    /\ cr.pc \in {"pref_invoke", "scan_invoke"}
    /\ call' = [call EXCEPT ![c] =
                 IF cr.pc = "pref_invoke"
                 THEN StartScan(cr1, heap, connections)
                 ELSE Scan(cr1, cr.idx + 1, heap, connections)]
    /\ UNCHANGED <<servers, heap, connections, initialized, runs>>

\* connection.call_tool(tool, arguments) called on the connection object o
\* itself: it raises at once, or awaits session.call_tool.
ConnInvoke(c) ==
    /\ call[c].pc = "idle"
    /\ \E o \in DOMAIN heap, tool \in Tools :
         LET out == ConnCallTool(heap[o], tool)
             name == heap[o].config.name
             cr == [IdleCall EXCEPT !.op = "invoke", !.tool = tool, !.obj = o, !.name = name]
         IN call' = [call EXCEPT ![c] =
                      IF out = "forward"
                      THEN [cr EXCEPT !.pc = "conn_invoke"]
                      ELSE [cr EXCEPT !.pc = "done",
                                      !.invoked = <<[name |-> name, ok |-> FALSE]>>,
                                      !.ret = [NoRet EXCEPT !.kind = out, !.server = name]]]
    /\ UNCHANGED <<servers, heap, connections, initialized, runs>>

\* session.call_tool answers the connection's own caller: the text of the
\* result is returned.
ConnInvokeOk(c) ==
    LET cr == call[c] IN
    /\ cr.pc = "conn_invoke"
    /\ call' = [call EXCEPT ![c] =
                 [cr EXCEPT !.pc = "done",
                            !.invoked = <<[name |-> cr.name, ok |-> TRUE]>>,
                            !.ret = [NoRet EXCEPT !.kind = "ok", !.server = cr.name]]]
    /\ UNCHANGED <<servers, heap, connections, initialized, runs>>

\* session.call_tool raises: the error is logged and raised again.
ConnInvokeFail(c) ==
    LET cr == call[c] IN
    /\ cr.pc = "conn_invoke"
    /\ call' = [call EXCEPT ![c] =
                 [cr EXCEPT !.pc = "done",
                            !.invoked = <<[name |-> cr.name, ok |-> FALSE]>>,
                            !.ret = [NoRet EXCEPT !.kind = "InvocationError", !.server = cr.name]]]
    /\ UNCHANGED <<servers, heap, connections, initialized, runs>>

\* MCPConfigManager.remove_server: the store without the descriptor, and
\* whether it held one.
StoreRemove(s, n) == SelectSeq(s, LAMBDA d : d.name # n)

\* Variant: a store whose test of the name never finds it.
StoreHasNever(s, n) == FALSE

StoreHas(s, n) == \E i \in DOMAIN s : s[i].name = n

\* remove_server once disconnect() has returned (or at once, for a name that
\* is not in the map): `del self.connections[name]`, then the store's
\* remove_server, whose result is returned.
RemoveFinish(c, cr, inMap) ==
    IF inMap /\ cr.name \notin Keys(connections)
    THEN /\ call' = [call EXCEPT ![c] =
                      [cr EXCEPT !.pc = "done", !.ret = [NoRet EXCEPT !.kind = "KeyError"]]]
         /\ UNCHANGED <<servers, connections>>
    ELSE /\ connections' = DictDel(connections, cr.name)
         /\ servers' = StoreRemove(servers, cr.name)
         /\ call' = [call EXCEPT ![c] =
                      [cr EXCEPT !.pc = "done",
                                 !.ret = [NoRet EXCEPT !.kind =
                                            IF StoreHas(servers, cr.name) THEN "true" ELSE "false"]]]

\* disconnect() with the lock in hand: a connection holding a session awaits
\* session.close(); one without returns at once.
DisconnectEnter(c, cr, o) ==
    IF heap[o].session
    THEN /\ heap' = [heap EXCEPT ![o].locked = TRUE]
         /\ call' = [call EXCEPT ![c] = [cr EXCEPT !.pc = "rm_close", !.obj = o]]
         /\ UNCHANGED <<servers, connections>>
    ELSE /\ heap' = heap
         /\ RemoveFinish(c, cr, TRUE)

\* remove_server(name) up to its first await.
RemoveServer(c) ==
    /\ call[c].pc = "idle"
    /\ \E n \in Names :
         LET cr == [IdleCall EXCEPT !.op = "remove_server", !.name = n,
                                    !.before = [servers |-> servers,
                                                connections |-> connections]] IN
         IF n \in Keys(connections)
         THEN LET o == Lookup(connections, n) IN
              IF heap[o].locked
              THEN /\ call' = [call EXCEPT ![c] =
                                [cr EXCEPT !.pc = "rm_lock", !.obj = o, !.waited = TRUE]]
                   /\ UNCHANGED <<servers, heap, connections>>
              ELSE DisconnectEnter(c, cr, o)
         ELSE /\ heap' = heap
              /\ RemoveFinish(c, cr, FALSE)
    /\ UNCHANGED <<initialized, runs>>

\* Variant: a disconnect() that goes on without the lock it waits for.
DisconnectLockedBarging(c) ==
    /\ call[c].pc = "rm_lock"
    /\ DisconnectEnter(c, call[c], call[c].obj)
    /\ UNCHANGED <<initialized, runs>>

\* disconnect() gets the connection's lock it was waiting for.
DisconnectLocked(c) ==
    /\ call[c].pc = "rm_lock"
    /\ ~heap[call[c].obj].locked
    /\ DisconnectEnter(c, call[c], call[c].obj)
    /\ UNCHANGED <<initialized, runs>>

\* What session.close() may answer: it returns, or it raises.
CloseOutcomes == {"ok", "raise"}

\* Variant: a `finally` that leaves available_tools as it is.
ReleasedKeepTools(cn) ==
    [cn EXCEPT !.session = FALSE,
               !.is_connected = FALSE,
               !.locked = FALSE]

\* The `finally` of disconnect(): the session is dropped, the flag and the
\* tools are cleared; the lock is released on the way out.
Released(cn) ==
    [cn EXCEPT !.session = FALSE,
               !.is_connected = FALSE,
               !.available_tools = {},
               !.locked = FALSE]

\* Variant: disconnect() without its except and finally clauses, so that a
\* close() that raises leaves remove_server with the connection as it was.
DisconnectClosedStrict(c) ==
    LET cr == call[c] o == cr.obj IN
    /\ cr.pc = "rm_close"
    /\ \E outcome \in CloseOutcomes :
         IF outcome = "ok"
         THEN /\ heap' = [heap EXCEPT ![o] = Released(@)]
              /\ RemoveFinish(c, [cr EXCEPT !.closed = outcome], TRUE)
         ELSE /\ heap' = [heap EXCEPT ![o].locked = FALSE]
              /\ call' = [call EXCEPT ![c] =
                           [cr EXCEPT !.pc = "done", !.closed = outcome,
                                      !.ret = [NoRet EXCEPT !.kind = "raise"]]]
              /\ UNCHANGED <<servers, connections>>
    /\ UNCHANGED <<initialized, runs>>

\* session.close() has returned or raised: either way disconnect() clears
\* the connection and returns, and remove_server goes on.
DisconnectClosed(c) ==
    LET cr == call[c] o == cr.obj IN
    /\ cr.pc = "rm_close"
    /\ heap' = [heap EXCEPT ![o] = Released(@)]
    /\ \E outcome \in CloseOutcomes :
         RemoveFinish(c, [cr EXCEPT !.closed = outcome], TRUE)
    /\ UNCHANGED <<initialized, runs>>

\* connection.disconnect() called on the connection object o itself, with
\* the lock in hand (it waits for a lock that is held): a connection holding
\* a session awaits session.close(), one without a session returns at once.
ConnDisconnect(c) ==
    /\ call[c].pc = "idle"
    /\ \E o \in DOMAIN heap :
         LET cr == [IdleCall EXCEPT !.op = "disconnect", !.obj = o,
                                    !.name = heap[o].config.name,
                                    !.found = heap[o].available_tools] IN
         /\ ~heap[o].locked
         /\ IF heap[o].session
            THEN /\ heap' = [heap EXCEPT ![o].locked = TRUE]
                 /\ call' = [call EXCEPT ![c] = [cr EXCEPT !.pc = "dc_close"]]
            ELSE /\ heap' = heap
                 /\ call' = [call EXCEPT ![c] =
                              [cr EXCEPT !.pc = "done", !.ret = [NoRet EXCEPT !.kind = "ok"]]]
    /\ UNCHANGED <<servers, connections, initialized, runs>>

\* session.close() has returned or raised: the error is logged, the
\* connection is cleared either way and disconnect() returns.
ConnDisconnectClosed(c) ==
    LET cr == call[c] o == cr.obj IN
    /\ cr.pc = "dc_close"
    /\ heap' = [heap EXCEPT ![o] = Released(@)]
    /\ \E outcome \in CloseOutcomes :
         call' = [call EXCEPT ![c] =
                   [cr EXCEPT !.pc = "done", !.closed = outcome,
                              !.ret = [NoRet EXCEPT !.kind = "ok"]]]
    /\ UNCHANGED <<servers, connections, initialized, runs>>

\* There is room for k more connection objects.
Room(k) == Len(heap) + k <= MaxObjects

\* MCPConfigManager.add_server, past its test of the name.
StoreAdd(s, d) == Append(s, d)

\* The descriptors the application layer may add.
AddableServers ==
    {MCPServerConfig(StoreOrder[i], en, RetryAttemptsOf(i)) :
        i \in DOMAIN StoreOrder, en \in BOOLEAN}

\* add_server(server_config) up to its first await: a name the store holds
\* returns False at once; otherwise the descriptor is stored, a connection is
\* created and _connect_with_retry is entered, whose first connect() takes
\* the new connection's lock and awaits the subprocess launch.
AddServer(c) ==
    /\ call[c].pc = "idle"
    /\ \E d \in AddableServers :
         LET cr == [IdleCall EXCEPT !.op = "add_server", !.name = d.name,
                                    !.before = [servers |-> servers,
                                                connections |-> connections]]
             o == Len(heap) + 1
         IN IF StoreHas(servers, d.name)
            THEN /\ call' = [call EXCEPT ![c] =
                              [cr EXCEPT !.pc = "done", !.ret = [NoRet EXCEPT !.kind = "false"]]]
                 /\ UNCHANGED <<servers, heap, runs>>
            ELSE /\ Room(1)
                 /\ servers' = StoreAdd(servers, d)
                 /\ heap' = Append(heap, [MCPServerConnection(d) EXCEPT !.locked = TRUE])
                 /\ runs' = Append(runs, [NewRun(c, o) EXCEPT !.pc = "spawn", !.launches = 1])
                 /\ call' = [call EXCEPT ![c] = [cr EXCEPT !.pc = "add_wait", !.obj = o]]
    /\ UNCHANGED <<connections, initialized>>

\* The retry coroutine add_server awaits.
AddRun(c) == CHOOSE i \in RunsOf(c) : runs[i].obj = call[c].obj

\* Variant: add_server leaving the descriptor in the store when the
\* connection failed.
AddFinishNoRollback(c) ==
    LET cr == call[c] IN
    /\ cr.pc = "add_wait"
    /\ runs[AddRun(c)].pc = "done"
    /\ IF runs[AddRun(c)].result = "true"
       THEN /\ connections' = DictSet(connections, cr.name, cr.obj)
            /\ call' = [call EXCEPT ![c] =
                         [cr EXCEPT !.pc = "done", !.ret = [NoRet EXCEPT !.kind = "true"]]]
       ELSE /\ connections' = connections
            /\ call' = [call EXCEPT ![c] =
                         [cr EXCEPT !.pc = "done", !.ret = [NoRet EXCEPT !.kind = "false"]]]
    /\ UNCHANGED <<servers, heap, initialized, runs>>

\* _connect_with_retry has returned: on success the connection enters the
\* map and True is returned; otherwise the descriptor is removed from the
\* store again and False is returned.
AddFinish(c) ==
    LET cr == call[c] IN
    /\ cr.pc = "add_wait"
    /\ runs[AddRun(c)].pc = "done"
    /\ IF runs[AddRun(c)].result = "true"
       THEN /\ connections' = DictSet(connections, cr.name, cr.obj)
            /\ servers' = servers
            /\ call' = [call EXCEPT ![c] =
                         [cr EXCEPT !.pc = "done", !.ret = [NoRet EXCEPT !.kind = "true"]]]
       ELSE /\ connections' = connections
            /\ servers' = StoreRemove(servers, cr.name)
            /\ call' = [call EXCEPT ![c] =
                         [cr EXCEPT !.pc = "done", !.ret = [NoRet EXCEPT !.kind = "false"]]]
    /\ UNCHANGED <<heap, initialized, runs>>

\* get_server_status(): it awaits nothing and returns the status mapping.
GetServerStatus(c) ==
    /\ call[c].pc = "idle"
    /\ call' = [call EXCEPT ![c] =
                 [IdleCall EXCEPT !.op = "get_server_status", !.pc = "done",
                                  !.ret = [NoRet EXCEPT !.kind = "ok",
                                             !.status = get_server_status(heap, connections, servers)]]]
    /\ UNCHANGED <<servers, heap, connections, initialized, runs>>

\* _create_default_config: the two descriptors of the default definition.
DefaultServers ==
    <<MCPServerConfig("filesystem", TRUE, 3), MCPServerConfig("git", FALSE, 3)>>

\* self.servers[server_config.name] = server_config
StorePut(s, d) ==
    IF StoreHas(s, d.name)
    THEN [i \in DOMAIN s |-> IF s[i].name = d.name THEN d ELSE s[i]]
    ELSE Append(s, d)

\* What the backing definition may hold when it is re-read: the first and
\* the third descriptor, the first with its arguments changed or not, the
\* third enabled or not.
BackingDefinitions ==
    {<<[MCPServerConfig(StoreOrder[1], TRUE, RetryAttemptsOf(1)) EXCEPT !.args = a],
       MCPServerConfig(StoreOrder[3], en, RetryAttemptsOf(3))>> :
        a \in {<<>>, <<"-v">>}, en \in BOOLEAN}

\* MCPConfigManager.reload_config on the store s.  The definition is read
\* ("ok"); or it is missing or unreadable, and the default definition is
\* written and its descriptors are put into the store beside those it holds
\* ("default"), or cannot be written, the store staying as it is
\* ("unwritable"), or its directory cannot be made, which raises ("raise").
LoadOutcomes(s) ==
    {[kind |-> "ok", servers |-> f] : f \in BackingDefinitions}
    \cup {[kind |-> "default", servers |-> StorePut(StorePut(s, DefaultServers[1]), DefaultServers[2])],
          [kind |-> "unwritable", servers |-> s],
          [kind |-> "raise", servers |-> s]}

\* There is room for the connections of any store a re-read may give.
RoomToReload ==
    \A out \in LoadOutcomes(servers) :
        Len(heap) + Len(SelectEnabled(out.servers)) <= MaxRebuilt

\* A task running disconnect() on the connection o.
NewDisconnect(c, o) == [NewRun(c, o) EXCEPT !.pc = "d_ready"]

\* The retry task r is ready to enter connect() and would get the lock.
Runnable(r) == r.pc = "ready" /\ ~heap[r.obj].locked

\* The task's disconnect() takes the lock: a connection holding a session
\* awaits session.close(), one without returns at once.  The event loop
\* runs what is ready in the order in which it became ready, so the retry
\* tasks created before this task are not left waiting at the door of
\* connect() when it runs.
DisconnectTaskBegin(i) ==
    LET r == runs[i] o == r.obj IN
    /\ r.pc = "d_ready"
    /\ ~heap[o].locked
    /\ \A j \in DOMAIN runs : j < i => ~Runnable(runs[j])
    /\ IF heap[o].session
       THEN /\ heap' = [heap EXCEPT ![o].locked = TRUE]
            /\ runs' = [runs EXCEPT ![i].pc = "d_close"]
       ELSE /\ heap' = heap
            /\ runs' = [runs EXCEPT ![i].pc = "done"]
    /\ UNCHANGED <<servers, connections, initialized, call>>

\* The task's session.close() has returned or raised.
DisconnectTaskClosed(i) ==
    LET r == runs[i] o == r.obj IN
    /\ r.pc = "d_close"
    /\ heap' = [heap EXCEPT ![o] = Released(@)]
    /\ \E outcome \in CloseOutcomes :
         runs' = [runs EXCEPT ![i].pc = "done", ![i].log = Append(@, outcome)]
    /\ UNCHANGED <<servers, connections, initialized, call>>

\* What the gathered disconnect tasks of a caller met when closing.
Gathered(c) ==
    IF \E i \in RunsOf(c) : runs[i].log = <<"raise">> THEN "raise"
    ELSE IF \E i \in RunsOf(c) : runs[i].log = <<"ok">> THEN "ok"
    ELSE "none"

\* Variant: cleanup() leaving the flag as it is.
AfterDisconnectAllKeepFlag(c, cr, rs) ==
    /\ cr.op = "cleanup"
    /\ connections' = <<>>
    /\ runs' = rs
    /\ call' = [call EXCEPT ![c] =
                 [cr EXCEPT !.pc = "done", !.ret = [NoRet EXCEPT !.kind = "ok"]]]
    /\ UNCHANGED <<servers, heap, initialized>>

\* disconnect_all() past its gather: the map is cleared.  cleanup() then
\* resets the flag and returns; reload_config() has the store re-read,
\* resets the flag and runs initialize(), unless the re-read raised.
AfterDisconnectAll(c, cr, rs) ==
    IF cr.op = "cleanup"
    THEN /\ connections' = <<>>
         /\ initialized' = FALSE
         /\ runs' = rs
         /\ call' = [call EXCEPT ![c] =
                      [cr EXCEPT !.pc = "done", !.ret = [NoRet EXCEPT !.kind = "ok"]]]
         /\ UNCHANGED <<servers, heap>>
    ELSE \E out \in LoadOutcomes(servers) :
            /\ servers' = out.servers
            /\ IF out.kind = "raise"
               THEN /\ connections' = <<>>
                    /\ runs' = rs
                    /\ call' = [call EXCEPT ![c] =
                                 [cr EXCEPT !.pc = "done", !.reread = out.kind,
                                            !.ret = [NoRet EXCEPT !.kind = "raise"]]]
                    /\ UNCHANGED <<heap, initialized>>
               ELSE FanOut(c, [cr EXCEPT !.reread = out.kind], out.servers, <<>>, heap, rs, FALSE)

\* Variant: disconnect_all() clearing the map without disconnecting the
\* connections.
DisconnectAllClearOnly(c, cr) == AfterDisconnectAll(c, cr, runs)

\* disconnect_all() up to its gather: one disconnect task per connection of
\* the map; with no connection it awaits nothing.
DisconnectAll(c, cr) ==
    LET tasks == [i \in DOMAIN connections |-> NewDisconnect(c, connections[i].obj)] IN
    IF tasks = <<>>
    THEN AfterDisconnectAll(c, cr, runs)
    ELSE /\ runs' = runs \o tasks
         /\ call' = [call EXCEPT ![c] = [cr EXCEPT !.pc = "da_wait"]]
         /\ UNCHANGED <<servers, heap, connections, initialized>>

\* The gather of disconnect_all() is over: every task has finished.
DisconnectAllJoin(c) ==
    /\ call[c].pc = "da_wait"
    /\ \A i \in RunsOf(c) : runs[i].pc = "done"
    /\ AfterDisconnectAll(c, [call[c] EXCEPT !.closed = Gathered(c)],
                          SelectSeq(runs, LAMBDA r : r.owner # c))

ReloadConfig(c) ==
    /\ call[c].pc = "idle"
    /\ DisconnectAll(c, [IdleCall EXCEPT !.op = "reload_config",
                                         !.before = [servers |-> servers,
                                                     connections |-> connections],
                                         !.objects = Len(heap)])

Cleanup(c) ==
    /\ call[c].pc = "idle"
    /\ DisconnectAll(c, [IdleCall EXCEPT !.op = "cleanup",
                                         !.before = [servers |-> servers,
                                                     connections |-> connections],
                                         !.objects = Len(heap)])

\* The operation has returned to the application layer; its finished retry
\* tasks are dropped with it.
Return(c) ==
    /\ call[c].pc = "done"
    /\ call' = [call EXCEPT ![c] = IdleCall]
    /\ runs' = SelectSeq(runs, LAMBDA r : r.owner # c)
    /\ UNCHANGED <<servers, heap, connections, initialized>>

\* server.enabled = b on the store's descriptor named n.
StoreSetEnabled(n, b) ==
    /\ \E i \in DOMAIN servers :
         /\ servers[i].name = n
         /\ servers[i].enabled # b
         /\ servers' = [servers EXCEPT ![i].enabled = b]
    /\ heap' = [o \in DOMAIN heap |->
                  IF heap[o].config.name = n
                  THEN [heap[o] EXCEPT !.config.enabled = b]
                  ELSE heap[o]]
    /\ UNCHANGED <<connections, initialized, runs, call>>

\* MCPConfigManager.enable_server / disable_server, called by the
\* application layer between two client operations.  The descriptor object
\* is the one a connection of that name was built from, so its config shows
\* the new flag too.
SetEnabled(n, b) ==
    /\ \A c \in Callers : call[c].pc = "idle"
    /\ StoreSetEnabled(n, b)

\* disable_server(name), called by one coroutine of the application layer
\* while another may be inside a client operation.
DisableServer(c, n) ==
    /\ call[c].pc = "idle"
    /\ StoreSetEnabled(n, FALSE)

\* ------------------------------------------------------------ specification
\* After construction: the store as loaded, no connection, not initialized.
\* Each descriptor is enabled or not.

InitialStores ==
    {[i \in DOMAIN StoreOrder |-> MCPServerConfig(StoreOrder[i], en[i], RetryAttemptsOf(i))] :
        en \in [DOMAIN StoreOrder -> BOOLEAN]}

Init ==
    /\ servers \in InitialStores
    /\ heap = <<>>
    /\ connections = <<>>
    /\ initialized = FALSE
    /\ runs = <<>>
    /\ call = [c \in Callers |-> IdleCall]

\* One step of the retry task i, whichever it is.
RunStep(i) ==
    \/ ConnectBegin(i)
    \/ SpawnOk(i)
    \/ SpawnFail(i)
    \/ HandshakeOk(i)
    \/ HandshakeFail(i)
    \/ ListingDone(i)
    \/ SleepDone(i)

\* One application coroutine calls the client, one operation at a time.
App == "app"

Next ==
    \/ \E i \in DOMAIN runs : ConnectBegin(i)
    \/ \E i \in DOMAIN runs : SpawnOk(i)
    \/ \E i \in DOMAIN runs : SpawnFail(i)
    \/ \E i \in DOMAIN runs : HandshakeOk(i)
    \/ \E i \in DOMAIN runs : HandshakeFail(i)
    \/ \E i \in DOMAIN runs : ListingDone(i)
    \/ \E i \in DOMAIN runs : SleepDone(i)
    \/ Initialize(App)
    \/ GetAvailableTools(App)
    \/ CallTool(App)
    \/ InitializeJoin(App)
    \/ InvokeOk(App)
    \/ InvokeFail(App)
    \/ Return(App)
    \/ \E n \in Names, b \in BOOLEAN : SetEnabled(n, b)

Spec == Init /\ [][Next]_vars

\* The retry loop and the fan-out of initialize() against a connect() that
\* may also raise.  Every await of a retry task is answered in the end (each
\* connect attempt terminates, each sleep ends), and the event loop resumes
\* initialize() once its tasks are done.
NextRetry ==
    \/ \E i \in DOMAIN runs : ConnectBegin(i)
    \/ \E i \in DOMAIN runs : SpawnOk(i)
    \/ \E i \in DOMAIN runs : SpawnFail(i)
    \/ \E i \in DOMAIN runs : HandshakeOk(i)
    \/ \E i \in DOMAIN runs : HandshakeFail(i)
    \/ \E i \in DOMAIN runs : ListingDone(i)
    \/ \E i \in DOMAIN runs : SleepDone(i)
    \/ \E i \in DOMAIN runs : ConnectRaises(i)
    \/ Initialize(App)
    \/ InitializeJoin(App)
    \/ Return(App)

\* Two coroutines of the application layer on the same client: one calls
\* tools, the other removes servers.
Admin == "admin"

NextConc ==
    \/ \E i \in DOMAIN runs : ConnectBegin(i)
    \/ \E i \in DOMAIN runs : SpawnOk(i)
    \/ \E i \in DOMAIN runs : SpawnFail(i)
    \/ \E i \in DOMAIN runs : HandshakeOk(i)
    \/ \E i \in DOMAIN runs : HandshakeFail(i)
    \/ \E i \in DOMAIN runs : ListingDone(i)
    \/ \E i \in DOMAIN runs : SleepDone(i)
    \/ CallTool(App)
    \/ InitializeJoin(App)
    \/ InvokeOk(App)
    \/ InvokeFail(App)
    \/ Return(App)
    \/ RemoveServer(Admin)
    \/ DisconnectLocked(Admin)
    \/ DisconnectClosed(Admin)
    \/ Return(Admin)

\* The store holds the first two descriptors only, both enabled.
InitConc ==
    /\ servers = [i \in 1..2 |-> MCPServerConfig(StoreOrder[i], TRUE, RetryAttemptsOf(i))]
    /\ heap = <<>>
    /\ connections = <<>>
    /\ initialized = FALSE
    /\ runs = <<>>
    /\ call = [c \in Callers |-> IdleCall]

SpecConc == InitConc /\ [][NextConc]_vars

\* One application coroutine administers the fleet: it adds and removes
\* servers and asks for the status, before or after initialize(), one
\* operation at a time.  The store starts with the first descriptor, enabled
\* or not, and the second, disabled.
InitAdmin ==
    /\ servers \in {<<MCPServerConfig(StoreOrder[1], en, RetryAttemptsOf(1)),
                       MCPServerConfig(StoreOrder[2], FALSE, RetryAttemptsOf(2))>> : en \in BOOLEAN}
    /\ heap = <<>>
    /\ connections = <<>>
    /\ initialized = FALSE
    /\ runs = <<>>
    /\ call = [c \in Callers |-> IdleCall]

NextAdmin ==
    \/ \E i \in DOMAIN runs : ConnectBegin(i)
    \/ \E i \in DOMAIN runs : SpawnOk(i)
    \/ \E i \in DOMAIN runs : SpawnFail(i)
    \/ \E i \in DOMAIN runs : HandshakeOk(i)
    \/ \E i \in DOMAIN runs : HandshakeFail(i)
    \/ \E i \in DOMAIN runs : ListingDone(i)
    \/ \E i \in DOMAIN runs : SleepDone(i)
    \/ Room(Len(get_enabled_servers)) /\ Initialize(Admin)
    \/ InitializeJoin(Admin)
    \/ AddServer(Admin)
    \/ AddFinish(Admin)
    \/ RemoveServer(Admin)
    \/ DisconnectClosed(Admin)
    \/ GetServerStatus(Admin)
    \/ Return(Admin)

SpecAdmin == InitAdmin /\ [][NextAdmin]_vars

\* One application coroutine initializes, reloads and cleans up the client,
\* one operation at a time.  The store starts with the first and the third
\* descriptor, both enabled.
InitReload ==
    /\ servers = <<MCPServerConfig(StoreOrder[1], TRUE, RetryAttemptsOf(1)),
                   MCPServerConfig(StoreOrder[3], TRUE, RetryAttemptsOf(3))>>
    /\ heap = <<>>
    /\ connections = <<>>
    /\ initialized = FALSE
    /\ runs = <<>>
    /\ call = [c \in Callers |-> IdleCall]

NextReload ==
    \/ \E i \in DOMAIN runs : ConnectBegin(i)
    \/ \E i \in DOMAIN runs : SpawnOk(i)
    \/ \E i \in DOMAIN runs : SpawnFail(i)
    \/ \E i \in DOMAIN runs : HandshakeOk(i)
    \/ \E i \in DOMAIN runs : HandshakeFail(i)
    \/ \E i \in DOMAIN runs : ListingDone(i)
    \/ \E i \in DOMAIN runs : SleepDone(i)
    \/ \E i \in DOMAIN runs : DisconnectTaskBegin(i)
    \/ \E i \in DOMAIN runs : DisconnectTaskClosed(i)
    \/ Len(heap) + Len(get_enabled_servers) <= MaxRebuilt /\ Initialize(App)
    \/ InitializeJoin(App)
    \/ RoomToReload /\ ReloadConfig(App)
    \/ Cleanup(App)
    \/ DisconnectAllJoin(App)
    \/ Return(App)

SpecReload == InitReload /\ [][NextReload]_vars

\* Two coroutines of the application layer call initialize() while the flag
\* is not yet set, and one of them may disable a server in the store first:
\* a connection of the map whose descriptor is no longer enabled is not
\* replaced by the second initialize() and gets a second retry task.
NextConnect ==
    \/ \E i \in DOMAIN runs : ConnectBegin(i)
    \/ \E i \in DOMAIN runs : SpawnOk(i)
    \/ \E i \in DOMAIN runs : SpawnFail(i)
    \/ \E i \in DOMAIN runs : HandshakeOk(i)
    \/ \E i \in DOMAIN runs : HandshakeFail(i)
    \/ \E i \in DOMAIN runs : ListingDone(i)
    \/ \E i \in DOMAIN runs : SleepDone(i)
    \/ Initialize(App)
    \/ InitializeJoin(App)
    \/ Return(App)
    \/ Initialize(Admin)
    \/ InitializeJoin(Admin)
    \/ Return(Admin)
    \/ \E n \in Names : DisableServer(Admin, n)

\* The store holds the second descriptor only, enabled.
InitConnect ==
    /\ servers = <<MCPServerConfig(StoreOrder[2], TRUE, RetryAttemptsOf(2))>>
    /\ heap = <<>>
    /\ connections = <<>>
    /\ initialized = FALSE
    /\ runs = <<>>
    /\ call = [c \in Callers |-> IdleCall]

SpecConnect == InitConnect /\ [][NextConnect]_vars

\* Tools called after initialize(), through the client and on a connection
\* object itself.
NextInvoke ==
    \/ \E i \in DOMAIN runs : ConnectBegin(i)
    \/ \E i \in DOMAIN runs : SpawnOk(i)
    \/ \E i \in DOMAIN runs : SpawnFail(i)
    \/ \E i \in DOMAIN runs : HandshakeOk(i)
    \/ \E i \in DOMAIN runs : HandshakeFail(i)
    \/ \E i \in DOMAIN runs : ListingDone(i)
    \/ \E i \in DOMAIN runs : SleepDone(i)
    \/ Initialize(App)
    \/ InitializeJoin(App)
    \/ CallTool(App)
    \/ InvokeOk(App)
    \/ InvokeFail(App)
    \/ ConnInvoke(App)
    \/ ConnInvokeOk(App)
    \/ ConnInvokeFail(App)
    \/ Return(App)

SpecInvoke == Init /\ [][NextInvoke]_vars

\* Connections disconnected one at a time after initialize().
NextDisconnect ==
    \/ \E i \in DOMAIN runs : ConnectBegin(i)
    \/ \E i \in DOMAIN runs : SpawnOk(i)
    \/ \E i \in DOMAIN runs : SpawnFail(i)
    \/ \E i \in DOMAIN runs : HandshakeOk(i)
    \/ \E i \in DOMAIN runs : HandshakeFail(i)
    \/ \E i \in DOMAIN runs : ListingDone(i)
    \/ \E i \in DOMAIN runs : SleepDone(i)
    \/ Initialize(App)
    \/ InitializeJoin(App)
    \/ ConnDisconnect(App)
    \/ ConnDisconnectClosed(App)
    \/ Return(App)

SpecDisconnect == Init /\ [][NextDisconnect]_vars

\* remove_server, and with it disconnect(), called while initialize() is
\* connecting.  Every await of a retry task and of disconnect() is answered
\* in the end, and a lock that stays free is granted.
NextSerial ==
    \/ \E i \in DOMAIN runs : ConnectBegin(i)
    \/ \E i \in DOMAIN runs : SpawnOk(i)
    \/ \E i \in DOMAIN runs : SpawnFail(i)
    \/ \E i \in DOMAIN runs : HandshakeOk(i)
    \/ \E i \in DOMAIN runs : HandshakeFail(i)
    \/ \E i \in DOMAIN runs : ListingDone(i)
    \/ \E i \in DOMAIN runs : SleepDone(i)
    \/ Initialize(App)
    \/ InitializeJoin(App)
    \/ Return(App)
    \/ RemoveServer(Admin)
    \/ DisconnectLocked(Admin)
    \/ DisconnectClosed(Admin)
    \/ Return(Admin)

SpecSerial ==
    /\ InitConc
    /\ [][NextSerial]_vars
    /\ WF_vars(\E i \in DOMAIN runs : RunStep(i))
    /\ WF_vars(DisconnectLocked(Admin))
    /\ WF_vars(DisconnectClosed(Admin))

\* cleanup() called by one coroutine while another is inside initialize().
NextTeardown ==
    \/ \E i \in DOMAIN runs : ConnectBegin(i)
    \/ \E i \in DOMAIN runs : SpawnOk(i)
    \/ \E i \in DOMAIN runs : SpawnFail(i)
    \/ \E i \in DOMAIN runs : HandshakeOk(i)
    \/ \E i \in DOMAIN runs : HandshakeFail(i)
    \/ \E i \in DOMAIN runs : ListingDone(i)
    \/ \E i \in DOMAIN runs : SleepDone(i)
    \/ \E i \in DOMAIN runs : DisconnectTaskBegin(i)
    \/ \E i \in DOMAIN runs : DisconnectTaskClosed(i)
    \/ Len(heap) + Len(get_enabled_servers) <= MaxRebuilt /\ Initialize(App)
    \/ InitializeJoin(App)
    \/ Return(App)
    \/ Cleanup(Admin)
    \/ DisconnectAllJoin(Admin)
    \/ Return(Admin)

SpecTeardown == InitConnect /\ [][NextTeardown]_vars

\* Two coroutines remove servers once initialize() has returned, possibly
\* the same server at the same time.
NextRemove ==
    \/ \E i \in DOMAIN runs : ConnectBegin(i)
    \/ \E i \in DOMAIN runs : SpawnOk(i)
    \/ \E i \in DOMAIN runs : SpawnFail(i)
    \/ \E i \in DOMAIN runs : HandshakeOk(i)
    \/ \E i \in DOMAIN runs : HandshakeFail(i)
    \/ \E i \in DOMAIN runs : ListingDone(i)
    \/ \E i \in DOMAIN runs : SleepDone(i)
    \/ Initialize(App)
    \/ InitializeJoin(App)
    \/ (initialized /\ RemoveServer(App))
    \/ DisconnectLocked(App)
    \/ DisconnectClosed(App)
    \/ Return(App)
    \/ (initialized /\ RemoveServer(Admin))
    \/ DisconnectLocked(Admin)
    \/ DisconnectClosed(Admin)
    \/ Return(Admin)

SpecRemove == InitConc /\ [][NextRemove]_vars

\* initialize() against servers that may never answer.  What the code
\* bounds in time is taken in the end: the lock of a connection is granted
\* once it is free, the subprocess launch answers or asyncio.wait_for cuts
\* it off at config.timeout, and a sleep of retry_delay ends.  Nothing
\* bounds session.initialize() and session.list_tools(): a server may leave
\* them unanswered for ever.
TimedStep(i) ==
    \/ ConnectBegin(i)
    \/ SpawnOk(i)
    \/ SpawnFail(i)
    \/ SleepDone(i)

NextTimeout ==
    \/ \E i \in DOMAIN runs : ConnectBegin(i)
    \/ \E i \in DOMAIN runs : SpawnOk(i)
    \/ \E i \in DOMAIN runs : SpawnFail(i)
    \/ \E i \in DOMAIN runs : HandshakeOk(i)
    \/ \E i \in DOMAIN runs : HandshakeFail(i)
    \/ \E i \in DOMAIN runs : ListingDone(i)
    \/ \E i \in DOMAIN runs : SleepDone(i)
    \/ Initialize(App)
    \/ InitializeJoin(App)
    \/ Return(App)

SpecTimeout ==
    /\ Init
    /\ [][NextTimeout]_vars
    /\ WF_vars(\E i \in DOMAIN runs : TimedStep(i))
    /\ WF_vars(InitializeJoin(App))

SpecRetry ==
    /\ Init
    /\ [][NextRetry]_vars
    /\ WF_vars(\E i \in DOMAIN runs : RunStep(i))
    /\ WF_vars(InitializeJoin(App))

\* ------------------------------------------------------------------ claims
InConnect(r) == r.pc \in {"spawn", "handshake", "listing"}

\* The connect() calls a retry coroutine has made so far.
Calls(r) == Len(r.log) + (IF InConnect(r) THEN 1 ELSE 0)

Succeeded(r) == \E k \in DOMAIN r.log : r.log[k] = "true"

\* C1: connect_with_retry calls connect() at most retry_attempts times; it
\* returns true at the first attempt that succeeds and makes no further
\* attempt; it returns false after exactly retry_attempts attempts when every
\* attempt fails, the connection being left Disconnected; and it never
\* raises, also when connect() raises.
C1_RetryContract ==
    \A i \in DOMAIN runs :
        LET r == runs[i] n == RetryOf(r) IN
        /\ Calls(r) <= n
        /\ r.result \in {"none", "true", "false"}
        /\ (r.pc = "done") = (r.result # "none")
        /\ \A k \in DOMAIN r.log :
              r.log[k] = "true" => (k = Len(r.log) /\ r.pc = "done" /\ r.result = "true")
        /\ r.result = "true" => Succeeded(r)
        /\ r.result = "false" =>
              /\ Len(r.log) = n
              /\ ~Succeeded(r)
              /\ ~heap[r.obj].is_connected

\* A task that returned false after a raise and a plain failure, beside one
\* that returned true on a later attempt than the first.
C1_Witness ==
    /\ \E i \in DOMAIN runs :
          /\ runs[i].result = "false"
          /\ Len(runs[i].log) = MaxRetry
          /\ \E k \in DOMAIN runs[i].log : runs[i].log[k] = "raise"
          /\ \E k \in DOMAIN runs[i].log : runs[i].log[k] = "false"
    /\ \E i \in DOMAIN runs :
          /\ runs[i].result = "true"
          /\ Len(runs[i].log) > 1

\* C2: initialize() on an empty map creates no connection for a descriptor
\* with enabled=false: the map keys are exactly the names of the enabled
\* descriptors, and every connection object stands for one of them.
C2_OnlyEnabledCreated ==
    \A c \in Callers :
        (call[c].pc # "idle" /\ call[c].ranInit) =>
            /\ Keys(connections) = EnabledNames
            /\ Len(heap) = Cardinality(EnabledNames)
            /\ \A o \in DOMAIN heap : heap[o].config.name \in EnabledNames

\* initialize() has returned over a store with a disabled and an enabled
\* descriptor.
C2_Witness ==
    /\ call[App].pc = "done"
    /\ call[App].op = "initialize"
    /\ call[App].ranInit
    /\ EnabledNames # {}
    /\ list_servers \ EnabledNames # {}
    /\ (list_servers \ EnabledNames) \cap Keys(connections) = {}

\* C3: initialize() waits for every retry task and then returns normally
\* with the flag set, whatever subset of servers never connects or raises:
\* no task it launched is still running when it returns, and once it waits
\* for its tasks it eventually returns.
C3_InitializeReturns ==
    /\ [](\A c \in Callers :
            (call[c].pc = "done" /\ call[c].ranInit) =>
                /\ initialized
                /\ call[c].op = "initialize" => call[c].ret.kind = "ok"
                /\ \A i \in RunsOf(c) : runs[i].pc = "done")
    /\ \A c \in Callers :
          (call[c].pc = "init_wait") ~> (call[c].pc = "done" /\ initialized)

\* initialize() has returned although none of the three servers connected,
\* one of them by raising.
C3_Witness ==
    /\ call[App].pc = "done"
    /\ call[App].op = "initialize"
    /\ call[App].ranInit
    /\ initialized
    /\ Cardinality(RunsOf(App)) = Len(StoreOrder)
    /\ \A i \in RunsOf(App) : runs[i].result = "false"
    /\ \E i \in RunsOf(App) : \E k \in DOMAIN runs[i].log : runs[i].log[k] = "raise"

IsConnected(n) ==
    n \in Keys(connections) /\ heap[Lookup(connections, n)].is_connected

\* C4: after initialize() has returned, a server is Connected iff one of its
\* at most retry_attempts connect attempts succeeded; the servers that
\* exhausted their attempts stay in the map, Disconnected; status() reports
\* the connected flag accordingly and available_tools() has an entry for
\* exactly the servers that connected.
C4_ConnectedIffAttemptSucceeded ==
    \A c \in Callers :
        (call[c].pc = "done" /\ call[c].ranInit) =>
            \A i \in RunsOf(c) :
                LET r == runs[i]
                    n == heap[r.obj].config.name
                    st == get_server_status(heap, connections, servers)
                    av == get_available_tools(heap, connections)
                IN /\ Len(r.log) <= RetryOf(r)
                   /\ ~Succeeded(r) => Len(r.log) = RetryOf(r)
                   /\ n \in Keys(connections)
                   /\ Lookup(connections, n) = r.obj
                   /\ heap[r.obj].is_connected <=> Succeeded(r)
                   /\ st[n].connected <=> Succeeded(r)
                   /\ (\E e \in av : e.name = n) <=> Succeeded(r)
                   /\ call[c].op = "get_available_tools" =>
                         ((\E e \in call[c].ret.avail : e.name = n) <=> Succeeded(r))

LogOf(c, n) ==
    LET i == CHOOSE j \in RunsOf(c) : heap[runs[j].obj].config.name = n IN runs[i].log

\* A connected at once, B after two failures (retry_attempts = 3), C never
\* (retry_attempts = 2): A and B are reported connected and listed, C is not.
C4_Witness ==
    /\ call[App].pc = "done"
    /\ call[App].op = "get_available_tools"
    /\ call[App].ranInit
    /\ Keys(connections) = {"A", "B", "C"}
    /\ LogOf(App, "A") = <<"true">>
    /\ LogOf(App, "B") = <<"false", "false", "true">>
    /\ LogOf(App, "C") = <<"false", "false">>
    /\ heap[Lookup(connections, "B")].config.retry_attempts = 3
    /\ heap[Lookup(connections, "C")].config.retry_attempts = 2
    /\ LET st == get_server_status(heap, connections, servers) IN
          st["A"].connected /\ st["B"].connected /\ ~st["C"].connected
    /\ {e.name : e \in call[App].ret.avail} = {"A", "B"}

\* C5: initialize() is idempotent: once the flag is set, a call makes no
\* connect attempt, creates no connection and leaves the map, every
\* connection and the flag unchanged, and returns at once.
C5_InitializeIdempotent ==
    [][\A c \in Callers :
          (initialized /\ call[c].pc = "idle" /\ call'[c].pc # "idle") =>
              /\ UNCHANGED <<servers, heap, connections, initialized, runs>>
              /\ call'[c].op = "initialize" =>
                    (call'[c].pc = "done" /\ call'[c].ret.kind = "ok")]_vars

\* A second initialize() has returned without initializing, although the
\* store's enabled set is no longer the map's key set and a managed server
\* is Disconnected.
C5_Witness ==
    /\ initialized
    /\ call[App].pc = "done"
    /\ call[App].op = "initialize"
    /\ ~call[App].ranInit
    /\ Keys(connections) # EnabledNames
    /\ \E n \in Keys(connections) : ~IsConnected(n)
    /\ \E n \in Keys(connections) : IsConnected(n)

\* C6: initialize() fans out: while it waits, every connection of the map
\* has its retry task, and a task that has not finished can always take its
\* next step, whatever the other tasks are doing.
C6_FanOut ==
    /\ \A c \in Callers :
          call[c].pc = "init_wait" =>
              \A j \in DOMAIN connections :
                  \E i \in RunsOf(c) : runs[i].obj = connections[j].obj
    /\ \A i \in DOMAIN runs : runs[i].pc # "done" => ENABLED RunStep(i)

\* A is Connected while B sleeps between two attempts and C is in its
\* handshake, initialize() still waiting.
C6_Witness ==
    /\ call[App].pc = "init_wait"
    /\ \E i, j, k \in RunsOf(App) :
          /\ runs[i].result = "true" /\ heap[runs[i].obj].is_connected
          /\ runs[j].pc = "sleep" /\ j < i
          /\ runs[k].pc = "handshake"

\* C7: available_tools() returns, after initialize() has run, one entry per
\* Connected connection of the map, holding that connection's tool set; a
\* Disconnected server has no entry, a Connected one with no tool an empty one.
C7_AvailableTools ==
    \A c \in Callers :
        (call[c].pc = "done" /\ call[c].op = "get_available_tools") =>
            /\ initialized
            /\ \A n \in Names : (\E e \in call[c].ret.avail : e.name = n) <=> IsConnected(n)
            /\ \A e \in call[c].ret.avail :
                  e.tools = heap[Lookup(connections, e.name)].available_tools

\* The result has an empty entry for a Connected server without tools and no
\* entry for a managed, Disconnected one.
C7_Witness ==
    /\ call[App].pc = "done"
    /\ call[App].op = "get_available_tools"
    /\ \E e \in call[App].ret.avail : e.tools = {}
    /\ \E e \in call[App].ret.avail : e.tools # {}
    /\ \E n \in Keys(connections) :
          ~IsConnected(n) /\ \A e \in call[App].ret.avail : e.name # n

\* The names of the Connected connections exposing the tool, in map order.
Eligible(tool) ==
    LET sel == SelectSeq(connections,
                         LAMBDA e : heap[e.obj].is_connected
                                    /\ tool \in heap[e.obj].available_tools)
    IN [k \in DOMAIN sel |-> sel[k].name]

PrefUsable(cr) ==
    /\ IsConnected(cr.pref)
    /\ cr.tool \in heap[Lookup(connections, cr.pref)].available_tools

\* C8: call_tool with a preferred server A invokes A first when A is in the
\* map, Connected and exposes the tool; whenever A is not used or its
\* invocation fails, the general scan runs over the Connected servers
\* exposing the tool, in map order, until an invocation succeeds; a server
\* whose invocation succeeds gives the call's result, and A's failure is not
\* propagated (the call fails only with ToolNotFound, once every such server
\* has been tried in the scan).
C8_PreferredFallsThrough ==
    \A c \in Callers :
        LET cr == call[c]
            log == cr.invoked
            el == Eligible(cr.tool)
            scan == IF PrefUsable(cr) THEN Tail(log) ELSE log
            fell == ~PrefUsable(cr) \/ ~log[1].ok
        IN (cr.pc = "done" /\ cr.op = "call_tool" /\ cr.pref # NoPref) =>
              /\ PrefUsable(cr) => (log # <<>> /\ log[1].name = cr.pref)
              /\ fell =>
                    /\ Len(scan) <= Len(el)
                    /\ \A k \in DOMAIN scan : scan[k].name = el[k]
                    /\ (\A k \in DOMAIN scan : ~scan[k].ok) =>
                          (Len(scan) = Len(el) /\ cr.ret.kind = "ToolNotFound")
              /\ \A k \in DOMAIN log :
                    log[k].ok => (k = Len(log) /\ cr.ret.kind = "ok"
                                  /\ cr.ret.server = log[k].name)
              /\ cr.ret.kind \in {"ok", "ToolNotFound"}

\* call_tool("x", preferred_server=A) has returned B's result, A being
\* Connected without the tool "x" and B Connected with it.
C8_Witness ==
    LET cr == call[App] IN
    /\ cr.pc = "done"
    /\ cr.op = "call_tool"
    /\ cr.pref = "A"
    /\ IsConnected("A")
    /\ cr.ret.kind = "ok"
    /\ cr.ret.server = "B"
    /\ cr.tool = "x"
    /\ "x" \notin heap[Lookup(connections, "A")].available_tools
    /\ "x" \in heap[Lookup(connections, "B")].available_tools

\* C9: call_tool fails with ToolNotFound exactly when no invocation on a
\* Connected server exposing the tool succeeded, and no other error ever
\* propagates out of call_tool.
C9_OnlyToolNotFound ==
    \A c \in Callers :
        LET cr == call[c] IN
        (cr.pc = "done" /\ cr.op = "call_tool") =>
            /\ cr.ret.kind \in {"ok", "ToolNotFound"}
            /\ (cr.ret.kind = "ToolNotFound") = (\A k \in DOMAIN cr.invoked : ~cr.invoked[k].ok)

\* C10: within one call_tool the preferred server is invoked at most once.
C10_PreferredInvokedOnce ==
    \A c \in Callers :
        LET cr == call[c] IN
        (cr.op = "call_tool" /\ cr.pref # NoPref) =>
            Cardinality({k \in DOMAIN cr.invoked : cr.invoked[k].name = cr.pref}) <= 1

\* C11: add_server(d) whose connection fails on every retry attempt returns
\* false and rolls back: d's name is in neither the map nor the store, both
\* are as they were before the call, and status() has no entry for the name.
C11_AddRollsBack ==
    \A c \in Callers :
        LET cr == call[c] IN
        (cr.pc = "done" /\ cr.op = "add_server" /\ RunsOf(c) # {}
            /\ runs[AddRun(c)].result = "false") =>
            /\ cr.ret.kind = "false"
            /\ ~Succeeded(runs[AddRun(c)])
            /\ Len(runs[AddRun(c)].log) = RetryOf(runs[AddRun(c)])
            /\ cr.name \notin Keys(connections)
            /\ ~StoreHas(servers, cr.name)
            /\ connections = cr.before.connections
            /\ servers = cr.before.servers
            /\ cr.name \notin DOMAIN get_server_status(heap, connections, servers)

\* add_server of a descriptor named C has returned false after two failed
\* attempts, one at the launch and one at the handshake, beside a managed
\* server and a stored one.
C11_Witness ==
    LET cr == call[Admin] IN
    /\ cr.pc = "done"
    /\ cr.op = "add_server"
    /\ cr.name = "C"
    /\ cr.ret.kind = "false"
    /\ RunsOf(Admin) # {}
    /\ runs[AddRun(Admin)].log = <<"false", "false">>
    /\ runs[AddRun(Admin)].launches = 2
    /\ heap[cr.obj].session
    /\ Keys(connections) = {"A"}
    /\ servers = cr.before.servers
    /\ Len(servers) = 2

\* C12: add_server(d) returns false when d's name is already in the map,
\* and then makes no connect attempt and leaves the existing connection, the
\* map and the store unchanged; it returns true only when the new connection
\* is Connected, and then the map holds that connection under d's name and
\* the store holds d.
C12_AddServer ==
    /\ [][\A c \in Callers :
            (call[c].pc = "idle" /\ call'[c].op = "add_server"
                /\ call'[c].name \in Keys(connections)) =>
                /\ call'[c].pc = "done"
                /\ call'[c].ret.kind = "false"
                /\ UNCHANGED <<servers, heap, connections, runs>>]_vars
    /\ [](\A c \in Callers :
            LET cr == call[c] IN
            (cr.pc = "done" /\ cr.op = "add_server" /\ cr.ret.kind = "true") =>
                /\ cr.name \notin Keys(cr.before.connections)
                /\ IsConnected(cr.name)
                /\ Lookup(connections, cr.name) = cr.obj
                /\ heap[cr.obj].config.name = cr.name
                /\ \E i \in DOMAIN servers : servers[i] = heap[cr.obj].config
                /\ servers = Append(cr.before.servers, heap[cr.obj].config))

\* add_server of a descriptor named C has returned false at once, C being
\* in the map, Connected with a tool, since an earlier add_server.
C12_Witness ==
    LET cr == call[Admin] IN
    /\ cr.pc = "done"
    /\ cr.op = "add_server"
    /\ cr.name = "C"
    /\ cr.ret.kind = "false"
    /\ RunsOf(Admin) = {}
    /\ IsConnected("C")
    /\ heap[Lookup(connections, "C")].available_tools # {}
    /\ connections = cr.before.connections
    /\ servers = cr.before.servers

\* C13: remove_server(name) returns false whenever name is not a key of the
\* map, and then changes neither the map nor the store, also when the store
\* holds a disabled or never-connected descriptor of that name.
C13_RemoveUnmanagedFails ==
    \A c \in Callers :
        LET cr == call[c] IN
        (cr.pc = "done" /\ cr.op = "remove_server"
            /\ cr.name \notin Keys(cr.before.connections)) =>
            /\ cr.ret.kind = "false"
            /\ connections = cr.before.connections
            /\ servers = cr.before.servers

\* C14: remove_server(name) on a server of the map closes its session,
\* removes the connection from the map and the descriptor from the store and
\* returns true, also when closing the session raises; afterwards the
\* connection is Disconnected, without session and tools, and status()
\* reports the name absent or not connected.
C14_RemoveManaged ==
    /\ [][\A c \in Callers :
            (call[c].pc = "idle" /\ call'[c].op = "remove_server"
                /\ call'[c].name \in Keys(connections)
                /\ heap[Lookup(connections, call'[c].name)].session) =>
                /\ call'[c].pc = "rm_close"
                /\ call'[c].obj = Lookup(connections, call'[c].name)]_vars
    /\ [](\A c \in Callers :
            LET cr == call[c]
                o == Lookup(cr.before.connections, cr.name)
                st == get_server_status(heap, connections, servers)
            IN (cr.pc = "done" /\ cr.op = "remove_server"
                   /\ cr.name \in Keys(cr.before.connections)) =>
                  /\ cr.ret.kind = "true"
                  /\ connections = DictDel(cr.before.connections, cr.name)
                  /\ cr.name \notin Keys(connections)
                  /\ servers = StoreRemove(cr.before.servers, cr.name)
                  /\ ~StoreHas(servers, cr.name)
                  /\ ~heap[o].is_connected
                  /\ ~heap[o].session
                  /\ heap[o].available_tools = {}
                  /\ ~heap[o].locked
                  /\ cr.name \in DOMAIN st => ~st[cr.name].connected)

\* remove_server("C") has returned true although closing C's session
\* raised; A stays in the map.
C14_Witness ==
    LET cr == call[Admin] IN
    /\ cr.pc = "done"
    /\ cr.op = "remove_server"
    /\ cr.name = "C"
    /\ cr.name \in Keys(cr.before.connections)
    /\ cr.closed = "raise"
    /\ cr.ret.kind = "true"
    /\ Keys(connections) = {"A"}
    /\ list_servers = {"A", "B"}

\* The connection objects an operation found in the map.
ManagedBefore(cr) == {cr.before.connections[j].obj : j \in DOMAIN cr.before.connections}

Disconnected(o) ==
    /\ ~heap[o].is_connected
    /\ ~heap[o].session
    /\ heap[o].available_tools = {}

\* C15: reload_config() is a full replace.  When the store's re-read
\* succeeds it returns without error, and then every connection managed
\* before the call is disconnected and no longer in the map, the flag is
\* set, the map keys are exactly the enabled descriptors of the re-read
\* store, and every connection of the map was created by this call, also for
\* an unchanged descriptor, and carries the re-read descriptor of its name.
C15_ReloadReplaces ==
    \A c \in Callers :
        LET cr == call[c] IN
        (cr.pc = "done" /\ cr.op = "reload_config" /\ cr.reread = "ok") =>
            /\ cr.ret.kind = "ok"
            /\ initialized
            /\ servers \in BackingDefinitions
            /\ Keys(connections) = EnabledNames
            /\ \A o \in ManagedBefore(cr) :
                  /\ Disconnected(o)
                  /\ \A j \in DOMAIN connections : connections[j].obj # o
            /\ \A j \in DOMAIN connections :
                  /\ connections[j].obj > cr.objects
                  /\ \E k \in DOMAIN servers :
                        /\ servers[k].name = connections[j].name
                        /\ heap[connections[j].obj].config = servers[k]
            /\ \A i \in RunsOf(c) : runs[i].pc = "done"

\* reload_config() has returned after initialize(): A and C were Connected
\* before; the re-read definition gives A new arguments and leaves C as it
\* was; both are Connected again, on new connection objects, A's carrying
\* the new arguments.
C15_Witness ==
    LET cr == call[App] IN
    /\ cr.pc = "done"
    /\ cr.op = "reload_config"
    /\ cr.reread = "ok"
    /\ Keys(cr.before.connections) = {"A", "C"}
    /\ cr.closed = "ok"
    /\ cr.before.servers[1].args = <<>>
    /\ servers[1].args = <<"-v">>
    /\ servers[2] = cr.before.servers[2]
    /\ IsConnected("A")
    /\ IsConnected("C")
    /\ heap[Lookup(connections, "A")].config.args = <<"-v">>
    /\ Lookup(connections, "C") # Lookup(cr.before.connections, "C")

\* C16: when the store fails to re-read during reload_config(), the call
\* fails with ReloadFailed and the prior connection set stays torn down:
\* every connection managed before is Disconnected and the map is empty,
\* not rebuilt from some other descriptor set.
C16_ReloadFailedPropagates ==
    \A c \in Callers :
        LET cr == call[c] IN
        (cr.pc = "done" /\ cr.op = "reload_config"
            /\ cr.reread \in {"default", "unwritable", "raise"}) =>
            /\ cr.ret.kind = "raise"
            /\ connections = <<>>
            /\ \A o \in ManagedBefore(cr) : Disconnected(o)

\* C17: status() always succeeds; its keys are the map keys and the store's
\* names; a name of the map is reported with its connection's connected
\* flag and tool set, tool_count being the size of that set; a name known
\* only to the store is reported not connected, with no tool.  This holds in
\* every reachable state, before initialize() and with servers that never
\* connect included.
C17_Status ==
    /\ LET st == get_server_status(heap, connections, servers) IN
          /\ DOMAIN st = Keys(connections) \cup list_servers
          /\ \A n \in Keys(connections) :
                /\ st[n].connected = heap[Lookup(connections, n)].is_connected
                /\ st[n].tools = heap[Lookup(connections, n)].available_tools
                /\ st[n].tools_count = Cardinality(st[n].tools)
          /\ \A n \in list_servers \ Keys(connections) :
                /\ ~st[n].connected
                /\ st[n].tools_count = 0
                /\ st[n].tools = {}
    /\ \A c \in Callers :
          (call[c].pc = "done" /\ call[c].op = "get_server_status") =>
              /\ call[c].ret.kind = "ok"
              /\ call[c].ret.status = get_server_status(heap, connections, servers)

\* status() has returned after initialize() and add_server: A, whose only
\* attempt failed, is in the map and reported not connected; C is reported
\* connected with two tools; B, disabled and known to the store only, is
\* reported not connected without tools.
C17_Witness ==
    LET cr == call[Admin] st == cr.ret.status IN
    /\ cr.pc = "done"
    /\ cr.op = "get_server_status"
    /\ initialized
    /\ DOMAIN st = {"A", "B", "C"}
    /\ Keys(connections) = {"A", "C"}
    /\ ~st["A"].connected
    /\ st["C"].connected /\ st["C"].tools_count = 2
    /\ ~st["B"].connected /\ st["B"].tools_count = 0

\* C18: after cleanup() has returned, every connection that was managed is
\* Disconnected, its session released and its tools cleared, whatever the
\* closes met; the map is empty and the flag is false; and the next
\* initialize() starts fresh: it reads the enabled descriptors of the store
\* and creates a new connection for each.
C18_Cleanup ==
    /\ [](\A c \in Callers :
            LET cr == call[c] IN
            (cr.pc = "done" /\ cr.op = "cleanup") =>
                /\ cr.ret.kind = "ok"
                /\ connections = <<>>
                /\ ~initialized
                /\ servers = cr.before.servers
                /\ \A o \in ManagedBefore(cr) : Disconnected(o) /\ ~heap[o].locked)
    /\ [][\A c \in Callers :
            (call[c].pc = "idle" /\ call'[c].op = "initialize"
                /\ ~initialized /\ connections = <<>>) =>
                /\ call'[c].ranInit
                /\ Keys(connections') = EnabledNames
                /\ \A j \in DOMAIN connections' :
                      /\ connections'[j].obj > Len(heap)
                      /\ \E k \in DOMAIN servers :
                            heap'[connections'[j].obj] = MCPServerConnection(servers[k])
                      /\ \E i \in DOMAIN runs' :
                            runs'[i] = NewRun(c, connections'[j].obj)]_vars

\* A second cleanup() has returned: the connections it found were those of
\* a rebuild that followed an earlier teardown, and closing one of them
\* raised.
C18_Witness ==
    LET cr == call[App] IN
    /\ cr.pc = "done"
    /\ cr.op = "cleanup"
    /\ cr.closed = "raise"
    /\ cr.objects = 4
    /\ ManagedBefore(cr) = {3, 4}
    /\ connections = <<>>
    /\ ~initialized

\* The retry tasks that are inside connect(), past its lock, on the object o.
Connecting(o) == {i \in DOMAIN runs : runs[i].obj = o /\ InConnect(runs[i])}

\* The step is one of the retry task i.
StepOf(i) == call' = call /\ i \in DOMAIN runs' /\ runs'[i] # runs[i]

\* C19: connect() on a Connected connection is a no-op returning true, and
\* concurrent connect() calls on one connection are serialized by its lock:
\* at most one of them is past the lock, a subprocess is launched and a
\* session created only while the connection is not Connected, so that a
\* call that follows a successful one returns true without launching.
C19_ConnectSerialized ==
    /\ [](\A o \in DOMAIN heap :
            /\ Cardinality(Connecting(o)) <= 1
            /\ Connecting(o) # {} => (heap[o].locked /\ ~heap[o].is_connected))
    /\ [][\A i \in DOMAIN runs :
            LET r == runs[i] o == r.obj IN
            StepOf(i) =>
                /\ (r.pc = "ready" /\ heap[o].is_connected) =>
                      /\ runs'[i].log = Append(r.log, "true")
                      /\ runs'[i].result = "true"
                      /\ runs'[i].launches = r.launches
                      /\ heap' = heap
                /\ runs'[i].launches > r.launches =>
                      /\ ~heap[o].is_connected
                      /\ ~heap[o].locked
                      /\ Connecting(o) = {}
                /\ (~heap[o].session /\ heap'[o].session) => ~heap[o].is_connected
                /\ (r.pc = "spawn" /\ runs'[i].pc = "handshake") => ~heap[o].is_connected]_vars

\* Two retry tasks on one connection: one launched, failed and slept; the
\* other then launched and connected; the first one's second connect()
\* returned true without a launch.
C19_Witness ==
    \E i, j \in DOMAIN runs :
        /\ i # j
        /\ runs[i].obj = runs[j].obj
        /\ runs[i].log = <<"true">>
        /\ runs[i].launches = 1
        /\ runs[j].log = <<"false", "true">>
        /\ runs[j].launches = 1
        /\ heap[runs[i].obj].is_connected

\* The connect() calls of a retry coroutine that returned false.
Failures(r) == Cardinality({k \in DOMAIN r.log : r.log[k] = "false"})

\* C20: a connect() attempt that fails, at the launch (error or timeout) or
\* at the handshake, returns false without raising, has launched the
\* subprocess exactly once and leaves the connection not Connected.
C20_ConnectFails ==
    /\ [](\A i \in DOMAIN runs :
            LET r == runs[i] IN
            /\ \A k \in DOMAIN r.log : r.log[k] \in {"true", "false"}
            /\ r.launches <= Calls(r)
            /\ Failures(r) + (IF InConnect(r) THEN 1 ELSE 0) <= r.launches)
    /\ [][\A i \in DOMAIN runs :
            LET r == runs[i] o == r.obj IN
            (StepOf(i) /\ r.pc \in {"spawn", "handshake"} /\ ~InConnect(runs'[i])) =>
                /\ runs'[i].log = Append(r.log, "false")
                /\ runs'[i].launches = r.launches
                /\ runs'[i].result \in {"none", "false"}
                /\ ~heap'[o].is_connected
                /\ ~heap'[o].locked]_vars

\* B has failed three times, at least once at the handshake, and C twice at
\* the launch: three and two launches, neither Connected.
C20_Witness ==
    \E i, j \in DOMAIN runs :
        /\ heap[runs[i].obj].config.name = "B"
        /\ runs[i].log = <<"false", "false", "false">>
        /\ runs[i].launches = 3
        /\ heap[runs[i].obj].session
        /\ ~heap[runs[i].obj].is_connected
        /\ heap[runs[j].obj].config.name = "C"
        /\ runs[j].log = <<"false", "false">>
        /\ runs[j].launches = 2
        /\ ~heap[runs[j].obj].session
        /\ ~heap[runs[j].obj].is_connected

\* The retry task i is inside a connect() call, past the lock.
InConnectCall(i) == i \in DOMAIN runs /\ InConnect(runs[i])

\* C21: every connect attempt is bounded by the descriptor's timeout: also
\* when the handshake, or anything else after the launch, never completes,
\* the connect() call returns in the end.
C21_ConnectReturns ==
    \A i \in DOMAIN StoreOrder : InConnectCall(i) ~> ~InConnectCall(i)

\* C22: connection.call_tool fails with "not connected" whenever the
\* connection is not Connected, whatever the tool; on a Connected connection
\* it fails with "tool not available" whenever the tool is not among
\* available_tools; in both cases it returns at once, nothing having gone to
\* the session.  Only for a listed tool of a Connected connection is the
\* call forwarded, and it then ends with the session's result or with the
\* session's error.
C22_Invoke ==
    [][\A c \in Callers :
        LET cr == call'[c] cn == heap[cr.obj] IN
        /\ (call[c].pc = "idle" /\ cr.op = "invoke") =>
              /\ ~cn.is_connected =>
                    (cr.pc = "done" /\ cr.ret.kind = "RuntimeError")
              /\ (cn.is_connected /\ cr.tool \notin cn.available_tools) =>
                    (cr.pc = "done" /\ cr.ret.kind = "ValueError")
              /\ (cn.is_connected /\ cr.tool \in cn.available_tools) =>
                    (cr.pc = "conn_invoke" /\ cr.ret = NoRet)
        /\ (call[c].pc = "conn_invoke" /\ cr # call[c]) =>
              (cr.pc = "done" /\ cr.ret.kind \in {"ok", "InvocationError"})
    ]_vars

\* A tool that is not listed, called on a connection whose handshake failed:
\* the answer is "not connected".
C22_Witness ==
    LET cr == call[App] IN
    /\ cr.op = "invoke"
    /\ cr.pc = "done"
    /\ cr.ret.kind = "RuntimeError"
    /\ ~heap[cr.obj].is_connected
    /\ cr.tool \notin heap[cr.obj].available_tools
    /\ \E o \in DOMAIN heap : heap[o].is_connected

\* The caller c's step is a failure of a connection.call_tool.
InvocationFailed(c) ==
    /\ call[c].pc # "done"
    /\ call'[c].op \in {"invoke", "call_tool"}
    /\ \/ call'[c].op = "invoke" /\ call'[c].pc = "done" /\ call'[c].ret.kind # "ok"
       \/ /\ call[c].pc \in {"pref_invoke", "scan_invoke"}
          /\ Len(call'[c].invoked) > Len(call[c].invoked)
          /\ ~call'[c].invoked[Len(call[c].invoked) + 1].ok

\* C23: a failed invocation, of connection.call_tool itself or inside the
\* client's call_tool, changes no connection (flag, session, tools) and
\* leaves the map as it was.
C23_FailedInvocationFrame ==
    [][(\E c \in Callers : InvocationFailed(c)) =>
          (heap' = heap /\ connections' = connections)]_vars

\* call_tool whose first server failed and whose second answered, the first
\* still Connected with its tools.
C23_Witness ==
    LET cr == call[App] IN
    /\ cr.op = "call_tool"
    /\ cr.pc = "done"
    /\ Len(cr.invoked) = 2
    /\ ~cr.invoked[1].ok
    /\ cr.invoked[2].ok
    /\ IsConnected(cr.invoked[1].name)
    /\ cr.tool \in heap[Lookup(connections, cr.invoked[1].name)].available_tools

\* C24: disconnect() never raises and leaves the connection Disconnected,
\* without session and without tools, also when session.close() raised;
\* called on a connection that is not Connected (disconnected before, or
\* never connected) it closes nothing and changes nothing.
C24_DisconnectIdempotent ==
    [][\A c \in Callers :
        LET cr == call'[c] IN
        /\ (call[c].pc # "done" /\ cr.op = "disconnect" /\ cr.pc = "done") =>
              /\ cr.ret.kind = "ok"
              /\ ~heap'[cr.obj].is_connected
              /\ ~heap'[cr.obj].session
              /\ heap'[cr.obj].available_tools = {}
        /\ (call[c].pc = "idle" /\ cr.op = "disconnect"
              /\ ~heap[cr.obj].is_connected) =>
              /\ cr.pc = "done"
              /\ cr.closed = "none"
              /\ heap' = heap
    ]_vars

\* C25: every name of the map has a descriptor in the store, and the
\* descriptor its connection was made from was enabled: add_server inserts
\* no connection for a descriptor with enabled = false, and no operation
\* removes a descriptor and leaves its connection in the map.
C25_MapKeysEnabled ==
    \A j \in DOMAIN connections :
        /\ StoreHas(servers, connections[j].name)
        /\ heap[connections[j].obj].config.enabled

\* C26: mutations of the map do not break an iteration over it: a call_tool
\* whose scan is suspended in an invocation while remove_server completes
\* (the map no longer has the size the scan started with) goes on over the
\* map and never fails because the map changed.
C26_ScanSurvivesMutation ==
    \A c \in Callers :
        LET cr == call[c] IN
        (cr.op = "call_tool" /\ cr.size # Len(connections)) =>
            cr.ret.kind # "RuntimeError"

\* The map m holds the entry e.
Holds(m, e) == \E k \in DOMAIN m : m[k] = e

\* C27: add_server and remove_server, succeeding or failing, leave every
\* connection other than the named one as it was: it stays in the map, the
\* same object, with its flag, its session and its tools.
C27_OthersUntouched ==
    [][\A c \in Callers :
        LET cr == call'[c] IN
        (call[c].pc # "done" /\ cr.op \in {"add_server", "remove_server"}) =>
            \A j \in DOMAIN connections :
                (connections[j].name # cr.name) =>
                    /\ Holds(connections', connections[j])
                    /\ heap'[connections[j].obj] = heap[connections[j].obj]
    ]_vars

\* remove_server of one of two managed servers has returned True: the other
\* is still in the map, Connected.
C27_Witness ==
    LET cr == call[Admin] IN
    /\ cr.op = "remove_server"
    /\ cr.pc = "done"
    /\ cr.ret.kind = "true"
    /\ Len(cr.before.connections) = 2
    /\ Len(connections) = 1
    /\ heap[connections[1].obj].is_connected
    /\ Holds(cr.before.connections, connections[1])

\* The attempts in the history of the retry coroutine r that failed, by
\* returning False or by raising, and were not the last of its n attempts.
FailedNotLast(r, n) == {k \in DOMAIN r.log : r.log[k] # "true" /\ k < n}

\* The sleeps of the retry coroutine r that are over.
SleptThrough(r) == r.sleeps - (IF r.pc = "sleep" THEN 1 ELSE 0)

\* C28: the retry loop has slept once for every failed attempt that was not
\* its last, whether connect() returned False or raised, and an attempt
\* starts only when the sleep after the attempt before it is over; it
\* sleeps neither after a success nor after the last attempt, so that a
\* server that always fails costs retry_attempts - 1 sleeps.
C28_SleepsBetweenAttempts ==
    \A i \in DOMAIN runs :
        LET r == runs[i] n == RetryOf(r) IN
        /\ r.sleeps = Cardinality(FailedNotLast(r, n))
        /\ Calls(r) <= SleptThrough(r) + 1
        /\ (r.pc = "done" /\ ~Succeeded(r)) => (r.sleeps = n - 1)

\* A server with retry_attempts = 3 failed by returning False and by
\* raising, three times in all: two sleeps.
C28_Witness ==
    \E i \in DOMAIN runs :
        /\ RetryOf(runs[i]) = MaxRetry
        /\ runs[i].pc = "done"
        /\ runs[i].result = "false"
        /\ runs[i].sleeps = MaxRetry - 1
        /\ \E k \in DOMAIN runs[i].log : runs[i].log[k] = "raise"
        /\ \E k \in DOMAIN runs[i].log : runs[i].log[k] = "false"

\* C29: call_tool without a usable preferred server invokes the Connected
\* servers exposing the tool in map order, one after the other, passing
\* over every other connection; the first invocation that succeeds gives
\* the result and no server after it is invoked, every server invoked
\* before it having failed.
C29_FirstSuccessInMapOrder ==
    \A c \in Callers :
        LET cr == call[c]
            log == cr.invoked
            el == Eligible(cr.tool)
        IN (cr.pc = "done" /\ cr.op = "call_tool" /\ ~PrefUsable(cr)) =>
              /\ Len(log) <= Len(el)
              /\ \A k \in DOMAIN log : log[k].name = el[k]
              /\ \A k \in DOMAIN log : (k < Len(log)) => ~log[k].ok
              /\ (cr.ret.kind = "ok") =>
                    (log # <<>> /\ log[Len(log)].ok /\ cr.ret.server = log[Len(log)].name)
              /\ (cr.ret.kind # "ok") =>
                    (Len(log) = Len(el) /\ \A k \in DOMAIN log : ~log[k].ok)

\* Three servers in the map, no preferred one: the first does not expose
\* the tool and is passed over, the second fails, the third answers.
C29_Witness ==
    LET cr == call[App] IN
    /\ cr.pc = "done"
    /\ cr.op = "call_tool"
    /\ cr.pref = NoPref
    /\ Len(connections) = 3
    /\ cr.tool \notin heap[connections[1].obj].available_tools
    /\ cr.invoked = <<[name |-> connections[2].name, ok |-> FALSE],
                      [name |-> connections[3].name, ok |-> TRUE]>>
    /\ cr.ret.kind = "ok"
    /\ cr.ret.server = connections[3].name

\* C30: a connection whose lock is free (no connect() and no disconnect() is
\* under way on it) holds a session exactly when it is Connected; after a
\* connect() that failed during the handshake it holds none.
C30_SessionIffConnected ==
    \A o \in DOMAIN heap :
        ~heap[o].locked => (heap[o].session = heap[o].is_connected)

\* C31: a connect attempt that fails after its session was created leaves
\* no session behind, and no attempt puts a new session in the place of one
\* that has not been closed.
C31_NoSessionLeak ==
    [][\A i \in DOMAIN runs :
        LET r == runs[i] IN
        /\ (StepOf(i) /\ r.pc = "handshake" /\ Len(runs'[i].log) > Len(r.log)) =>
              ~heap'[r.obj].session
        /\ (StepOf(i) /\ r.pc = "spawn" /\ runs'[i].pc = "handshake") =>
              ~heap[r.obj].session
    ]_vars

\* C32: a connection that is not Connected, or holds no session, has no
\* tools: at its creation, after a failed connect() and after disconnect(),
\* whose clearing of the tools comes in one step with the release of the
\* session and of the flag.
C32_ToolsOnlyWhenConnected ==
    \A o \in DOMAIN heap :
        (~heap[o].is_connected \/ ~heap[o].session) => (heap[o].available_tools = {})

\* disconnect() has returned on a connection it found with both tools, its
\* session.close() having raised; another connection never connected.
C32_Witness ==
    LET cr == call[App] IN
    /\ cr.op = "disconnect"
    /\ cr.pc = "done"
    /\ cr.found = Tools
    /\ cr.closed = "raise"
    /\ heap[cr.obj].available_tools = {}
    /\ \E o \in DOMAIN heap : o # cr.obj /\ ~heap[o].is_connected /\ heap[o].session

\* The name of the server the retry coroutine r connects.
ServerOf(r) == heap[r.obj].config.name

\* C33: a connect() whose handshake succeeded and whose tool listing failed
\* returns True and leaves the connection Connected without tools; the
\* server then has an entry without tools in what get_available_tools
\* returns, and call_tool invokes it for no tool.
C33_FailedListingLeavesNoTools ==
    \A i \in DOMAIN runs :
        LET r == runs[i] cr == call[r.owner] IN
        (r.listed = "failed") =>
            /\ r.result = "true"
            /\ heap[r.obj].is_connected
            /\ heap[r.obj].available_tools = {}
            /\ (cr.pc = "done" /\ cr.op = "get_available_tools") =>
                  ([name |-> ServerOf(r), tools |-> {}] \in cr.ret.avail)
            /\ (cr.op = "call_tool") =>
                  (\A k \in DOMAIN cr.invoked : cr.invoked[k].name # ServerOf(r))

\* get_available_tools has returned after an initialize() in which one
\* server's listing failed and another's gave both tools.
C33_Witness ==
    LET cr == call[App] IN
    /\ cr.pc = "done"
    /\ cr.op = "get_available_tools"
    /\ \E i, j \in RunsOf(App) :
          /\ runs[i].listed = "failed"
          /\ [name |-> ServerOf(runs[i]), tools |-> {}] \in cr.ret.avail
          /\ runs[j].listed = "ok"
          /\ [name |-> ServerOf(runs[j]), tools |-> Tools] \in cr.ret.avail

\* The caller c is inside disconnect(), past the lock, or waits for it.
InDisconnect(c) == call[c].pc = "rm_close"

WaitsForLock(c) == call[c].pc = "rm_lock"

ObjectsOf(n) == {o \in DOMAIN heap : heap[o].config.name = n}

TasksOn(o) == {i \in DOMAIN runs : runs[i].obj = o}

InMap(o) == \E j \in DOMAIN connections : connections[j].obj = o

\* C35: also with two callers inside initialize() before the flag is set,
\* every enabled descriptor gets one connection object and one retry task,
\* and a connection that is Connected is the one the map holds.
C35_InitializeSingleShot ==
    /\ \A n \in Names : Cardinality(ObjectsOf(n)) <= 1
    /\ \A o \in DOMAIN heap : Cardinality(TasksOn(o)) <= 1
    /\ \A o \in DOMAIN heap : heap[o].is_connected => InMap(o)

\* No operation of the client is under way.
Quiescent == \A c \in Callers : call[c].pc \in {"idle", "done"}

\* C36: between operations, a Connected connection holding its session is
\* the object the map holds under its name: the initialize() that follows a
\* successful add_server(d) does not put a new object in the place of d's
\* Connected connection.
C36_SessionsOwnedByMap ==
    Quiescent =>
        \A o \in DOMAIN heap :
            (heap[o].is_connected /\ heap[o].session) =>
                (heap[o].config.name \in Keys(connections)
                    /\ Lookup(connections, heap[o].config.name) = o)

\* C37: a cleanup() that ran while the retry tasks of initialize() were in
\* flight leaves nothing behind: once both have returned, the connections
\* cleanup() found in the map are not Connected (a retry task that slept
\* while its connection was disconnected and dropped does not connect it
\* afterwards), and, no initialize() having begun after it, the map is empty.
C37_TeardownLeavesNothing ==
    LET cr == call[Admin] IN
    (Quiescent /\ cr.op = "cleanup" /\ cr.pc = "done") =>
        /\ \A o \in ManagedBefore(cr) : ~heap[o].is_connected
        /\ (Len(heap) = cr.objects) => (connections = <<>>)

\* Both callers have finished a remove_server of the same name, each having
\* found the name in the map.
BothRemoved ==
    /\ \A c \in Callers : call[c].op = "remove_server" /\ call[c].pc = "done"
    /\ call[App].name = call[Admin].name
    /\ \A c \in Callers : call[c].name \in Keys(call[c].before.connections)

\* C38: concurrent remove_server calls never raise, and of two calls that
\* overlap on the same Connected server one returns true and the other
\* false, the session being closed once.
C38_ConcurrentRemove ==
    /\ \A c \in Callers :
          (call[c].op = "remove_server" /\ call[c].pc = "done") =>
              call[c].ret.kind \in {"true", "false"}
    /\ BothRemoved =>
          /\ Cardinality({c \in Callers : call[c].ret.kind = "true"}) = 1
          /\ Cardinality({c \in Callers : call[c].closed # "none"}) <= 1

\* The caller's invocation is at the session of connection o.
Forwarded(cr, o) == cr.pc \in {"pref_invoke", "scan_invoke"} /\ cr.obj = o

\* C39: no invocation is forwarded to a session whose teardown has begun:
\* while a disconnect() is closing a connection's session, no call_tool step
\* hands a tool invocation to that connection.
C39_NoForwardDuringTeardown ==
    [][\A c, d \in Callers :
          (InDisconnect(d) /\ call'[c] # call[c]) =>
              ~Forwarded(call'[c], call[d].obj)]_vars

====
